---- MODULE Spec2Model ----
(***************************************************************************)
(* Saki control plane: the workload-state reconciliation engine.           *)
(*                                                                         *)
(* AppService (control-plane-backend/src/app.ts) drives KubernetesDeployer *)
(* (lib/kubernetes.ts) against the cluster orchestrator, which is the only *)
(* store of application state.  Every await of the TypeScript code is a    *)
(* suspension point, so every orchestrator or schema-provisioner call is   *)
(* one atomic step of the request that issues it, and requests interleave  *)
(* between those steps.                                                    *)
(*                                                                         *)
(* Strings are sequences of one-character strings, so that lower-casing,   *)
(* trimming, prefix tests and truthiness are computed as the code does.    *)
(* Timestamps are integers (hours since an epoch).                         *)
(***************************************************************************)
EXTENDS Integers, Sequences, FiniteSets, TLC

(***************************************************************************)
(* Bounds of the model.                                                    *)
(***************************************************************************)
MaxCalls == 3
MaxSeqCalls == 2
MaxReplicas == 1
MaxGeneration == 2
MaxClock == 1
MaxLines == 5
MaxLimit == 3
MaxLookupCalls == 3
MaxFaultCalls == 3
MaxDrawn == 3
MaxPad == 64
MaxEnvLen == 3
MaxBootCalls == 2
MaxListCalls == 3
MaxOffset == 12
MaxPods == 3
MaxFetchCalls == 2
MaxStoreCalls == 4
MaxIdTail == 3
MaxRetryCalls == 4
MaxQueryLen == 4

(***************************************************************************)
(* Program constants.                                                      *)
(***************************************************************************)
APP_PORT == 3000
SERVICE_PORT == 80
DefaultAppTtlHours == 168
LabelMaxLength == 63
NameFragmentMaxLength == 32
IdFragmentLength == 10
TailLines == 5000
CONTROL_PLANE_LABEL_VALUE == <<"s", "a", "k", "i">>
APP_CONTAINER_NAME == <<"a", "p", "p">>
RegistryHost == <<"r">>
AppBaseDomain == <<"d">>

(***************************************************************************)
(* Characters and strings.                                                 *)
(***************************************************************************)
UpperSeq ==
  <<"A", "B", "C", "D", "E", "F", "G", "H", "I", "J", "K", "L", "M",
    "N", "O", "P", "Q", "R", "S", "T", "U", "V", "W", "X", "Y", "Z">>

LowerSeq ==
  <<"a", "b", "c", "d", "e", "f", "g", "h", "i", "j", "k", "l", "m",
    "n", "o", "p", "q", "r", "s", "t", "u", "v", "w", "x", "y", "z">>

DigitChars == {"0", "1", "2", "3", "4", "5", "6", "7", "8", "9"}

LowerChars == {LowerSeq[i] : i \in 1..26}

AlnumChars == LowerChars \cup DigitChars

ToLowerChar(c) ==
  IF \E i \in 1..26 : UpperSeq[i] = c
  THEN LowerSeq[CHOOSE i \in 1..26 : UpperSeq[i] = c]
  ELSE c

ToLowerCase(s) == [i \in 1..Len(s) |-> ToLowerChar(s[i])]

MinOf(S) == CHOOSE x \in S : \A y \in S : x <= y

MaxOf(S) == CHOOSE x \in S : \A y \in S : x >= y

Slice(s, n) == SubSeq(s, 1, IF Len(s) < n THEN Len(s) ELSE n)

StartsWith(s, prefix) ==
  /\ Len(s) >= Len(prefix)
  /\ SubSeq(s, 1, Len(prefix)) = prefix

\* s.replace(/^X+/, '') for the character class X
StripLeading(s, X) ==
  LET keep == {i \in 1..Len(s) : s[i] \notin X}
  IN  IF keep = {} THEN <<>> ELSE SubSeq(s, MinOf(keep), Len(s))

\* s.replace(/X+$/, '') for the character class X
StripTrailing(s, X) ==
  LET keep == {i \in 1..Len(s) : s[i] \notin X}
  IN  IF keep = {} THEN <<>> ELSE SubSeq(s, 1, MaxOf(keep))

\* s.replace(/[^allowed]/g, '-')
ReplaceDisallowed(s, allowed) ==
  [i \in 1..Len(s) |-> IF s[i] \in allowed THEN s[i] ELSE "-"]

RECURSIVE CollapseHyphens(_)
\* s.replace(/-+/g, '-')
CollapseHyphens(s) ==
  IF Len(s) <= 1 THEN s
  ELSE IF s[1] = "-" /\ s[2] = "-" THEN CollapseHyphens(Tail(s))
  ELSE <<s[1]>> \o CollapseHyphens(Tail(s))

(***************************************************************************)
(* IdentityNaming and label normalisation.                                 *)
(***************************************************************************)
normalizeOwner(owner) == ToLowerCase(owner)

\* a name fragment that is never cut to its maximal length
toKubeNameFragment_unsliced(value, maxLength) ==
  LET normalized ==
        StripTrailing(
          StripLeading(
            CollapseHyphens(
              ReplaceDisallowed(ToLowerCase(value), AlnumChars \cup {"-"})),
            {"-"}),
          {"-"})
  IN  IF normalized = <<>> THEN <<"a", "p", "p">> ELSE normalized

toKubeNameFragment(value, maxLength) ==
  LET normalized ==
        StripTrailing(
          StripLeading(
            CollapseHyphens(
              ReplaceDisallowed(ToLowerCase(value), AlnumChars \cup {"-"})),
            {"-"}),
          {"-"})
      sliced == StripTrailing(Slice(normalized, maxLength), {"-"})
  IN  IF sliced = <<>> THEN <<"a", "p", "p">> ELSE sliced

\* a label value whose edges are not looked at again after the cut
toLabelValue_cutOnly(value) ==
  LET normalized ==
        Slice(
          StripTrailing(
            StripLeading(
              ReplaceDisallowed(ToLowerCase(value),
                                AlnumChars \cup {".", "_", "-"}),
              {"-"}),
            {"-"}),
          LabelMaxLength)
  IN  IF normalized = <<>> THEN <<"x">> ELSE normalized

toLabelValue(value) ==
  LET normalized ==
        Slice(
          StripTrailing(
            StripLeading(
              ReplaceDisallowed(ToLowerCase(value),
                                AlnumChars \cup {".", "_", "-"}),
              {"-"}),
            {"-"}),
          LabelMaxLength)
      nonAlnum == {".", "_", "-"}
      retrimmed == StripTrailing(StripLeading(normalized, nonAlnum), nonAlnum)
  IN  IF normalized = <<>> THEN <<"x">>
      ELSE IF normalized[1] \in AlnumChars
              /\ normalized[Len(normalized)] \in AlnumChars
           THEN normalized
      ELSE IF retrimmed = <<>> THEN <<"x">> ELSE retrimmed

appResourceBaseName(app) ==
  LET namePart == toKubeNameFragment(app.name, NameFragmentMaxLength)
      stripped == SelectSeq(ToLowerCase(app.app_id),
                            LAMBDA c : c \in AlnumChars)
      idPart == IF Slice(stripped, IdFragmentLength) = <<>>
                THEN <<"a", "p", "p">>
                ELSE Slice(stripped, IdFragmentLength)
  IN  <<"s", "a", "k", "i", "-">> \o namePart \o <<"-">> \o idPart

appResourceNames(app) ==
  LET base == appResourceBaseName(app)
  IN  [deployment |-> base \o <<"-", "d", "e", "p">>,
       service    |-> base \o <<"-", "s", "v", "c">>,
       ingress    |-> base \o <<"-", "i", "n", "g">>]

\* `https://${name}.${config.appBaseDomain}`; the scheme is one token
UrlFor(name) == <<"https://">> \o name \o <<".">> \o AppBaseDomain

safeHostForAppUrl(url, name) ==
  IF Len(url) >= 2 /\ url[1] = "https://"
  THEN SubSeq(url, 2, Len(url))
  ELSE name \o <<".">> \o AppBaseDomain

(***************************************************************************)
(* JavaScript values.  undefined and null are Undefined for numbers and    *)
(* the empty sequence for strings: the code only tests their truthiness.   *)
(***************************************************************************)
Undefined == 0 - 1

NoRecord == [null |-> TRUE]

Statuses == {"pending", "deploying", "healthy", "failed", "stopped", "deleting"}

(***************************************************************************)
(* StatusDeriver.                                                          *)
(***************************************************************************)
OrElse(value, fallback) == IF value = Undefined THEN fallback ELSE value

\* conditions.find((condition) => condition.type === 'Progressing')
FindProgressing(conditions) ==
  LET hits == {i \in 1..Len(conditions) : conditions[i].type = "Progressing"}
  IN  IF hits = {} THEN [type |-> "none", status |-> "none", reason |-> "none"]
      ELSE conditions[MinOf(hits)]

\* a deployment derives status 'failed' before its replica count is looked at
statusFromDeployment_failedFirst(deployment) ==
  LET progressing == FindProgressing(deployment.status.conditions)
  IN  IF deployment.metadata.deletionTimestamp THEN "deleting"
      ELSE IF progressing.status = "False"
              /\ progressing.reason = "ProgressDeadlineExceeded"
           THEN "failed"
      ELSE IF OrElse(deployment.spec.replicas, 1) = 0 THEN "stopped"
      ELSE "deploying"

\* a deployment with no observed replicas is 'pending' before its ready and
\* available counts are looked at
statusFromDeployment_pendingFirst(deployment) ==
  LET progressing == FindProgressing(deployment.status.conditions)
  IN  IF deployment.metadata.deletionTimestamp THEN "deleting"
      ELSE IF OrElse(deployment.spec.replicas, 1) = 0 THEN "stopped"
      ELSE IF progressing.status = "False"
              /\ progressing.reason = "ProgressDeadlineExceeded"
           THEN "failed"
      ELSE IF OrElse(deployment.status.replicas, 0) = 0 THEN "pending"
      ELSE IF /\ OrElse(deployment.status.readyReplicas, 0) > 0
              /\ OrElse(deployment.status.availableReplicas, 0) > 0
              /\ OrElse(deployment.status.observedGeneration, 0)
                   >= OrElse(deployment.metadata.generation, 0)
           THEN "healthy"
      ELSE "deploying"

statusFromDeployment(deployment) ==
  LET desiredReplicas == OrElse(deployment.spec.replicas, 1)
      progressing == FindProgressing(deployment.status.conditions)
      ready == OrElse(deployment.status.readyReplicas, 0)
      available == OrElse(deployment.status.availableReplicas, 0)
      observedGeneration == OrElse(deployment.status.observedGeneration, 0)
      generation == OrElse(deployment.metadata.generation, 0)
  IN  IF deployment.metadata.deletionTimestamp THEN "deleting"
      ELSE IF desiredReplicas = 0 THEN "stopped"
      ELSE IF progressing.status = "False"
              /\ progressing.reason = "ProgressDeadlineExceeded"
           THEN "failed"
      ELSE IF ready > 0 /\ available > 0 /\ observedGeneration >= generation
           THEN "healthy"
      ELSE IF OrElse(deployment.status.replicas, 0) = 0 THEN "pending"
      ELSE "deploying"

(***************************************************************************)
(* RecordCodec.                                                            *)
(***************************************************************************)
labelsForApp(app) ==
  [managedBy |-> CONTROL_PLANE_LABEL_VALUE,
   owner     |-> toLabelValue(normalizeOwner(app.owner)),
   name      |-> toLabelValue(app.name),
   appId     |-> toLabelValue(app.app_id)]

selectorLabelsForApp(app) ==
  [managedBy |-> CONTROL_PLANE_LABEL_VALUE,
   appId     |-> toLabelValue(app.app_id)]

annotationsForApp(app, status) ==
  [app_id        |-> app.app_id,
   deployment_id |-> app.deployment_id,
   owner         |-> normalizeOwner(app.owner),
   name          |-> app.name,
   description   |-> app.description,
   url           |-> app.url,
   image         |-> app.image,
   created_at    |-> app.created_at,
   updated_at    |-> app.updated_at,
   ttl_expiry    |-> app.ttl_expiry,
   status        |-> status]

\* a decoder that trusts the status annotation of the last write
deploymentToRecord_trusting(deployment, now) ==
  LET annotations == deployment.metadata.annotations
      image == IF annotations.image # <<>> THEN annotations.image
               ELSE deployment.spec.image
      createdTimestamp == deployment.metadata.creationTimestamp
      timeOr(value) ==
        IF value # Undefined THEN value
        ELSE IF createdTimestamp # Undefined THEN createdTimestamp
        ELSE now
  IN  IF \/ annotations.app_id = <<>>
         \/ annotations.deployment_id = <<>>
         \/ annotations.owner = <<>>
         \/ annotations.name = <<>>
         \/ annotations.description = <<>>
         \/ annotations.url = <<>>
         \/ image = <<>>
      THEN NoRecord
      ELSE [app_id        |-> annotations.app_id,
            deployment_id |-> annotations.deployment_id,
            owner         |-> annotations.owner,
            name          |-> annotations.name,
            description   |-> annotations.description,
            image         |-> image,
            url           |-> annotations.url,
            status        |-> annotations.status,
            created_at    |-> timeOr(annotations.created_at),
            updated_at    |-> timeOr(annotations.updated_at),
            ttl_expiry    |-> OrElse(annotations.ttl_expiry, now)]

\* now is the value of new Date().toISOString() at the time of the call
deploymentToRecord(deployment, now) ==
  LET annotations == deployment.metadata.annotations
      image == IF annotations.image # <<>> THEN annotations.image
               ELSE deployment.spec.image
      createdTimestamp == deployment.metadata.creationTimestamp
      timeOr(value) ==
        IF value # Undefined THEN value
        ELSE IF createdTimestamp # Undefined THEN createdTimestamp
        ELSE now
  IN  IF \/ annotations.app_id = <<>>
         \/ annotations.deployment_id = <<>>
         \/ annotations.owner = <<>>
         \/ annotations.name = <<>>
         \/ annotations.description = <<>>
         \/ annotations.url = <<>>
         \/ image = <<>>
      THEN NoRecord
      ELSE [app_id        |-> annotations.app_id,
            deployment_id |-> annotations.deployment_id,
            owner         |-> annotations.owner,
            name          |-> annotations.name,
            description   |-> annotations.description,
            image         |-> image,
            url           |-> annotations.url,
            status        |-> statusFromDeployment(deployment),
            created_at    |-> timeOr(annotations.created_at),
            updated_at    |-> timeOr(annotations.updated_at),
            ttl_expiry    |-> OrElse(annotations.ttl_expiry, now)]

(***************************************************************************)
(* The cluster orchestrator: three object kinds keyed by name, each object *)
(* carrying a server-assigned resourceVersion taken from one counter.      *)
(* A store is a function from the names of the existing objects to them.   *)
(***************************************************************************)
\* labelSelector "k1=v1,k2=v2": every listed label must be equal
MatchesSelector(object, selector) ==
  \A key \in DOMAIN selector :
    /\ key \in DOMAIN object.metadata.labels
    /\ object.metadata.labels[key] = selector[key]

ListNamespaced(store, selector) ==
  {store[n] : n \in {m \in DOMAIN store : MatchesSelector(store[m], selector)}}

\* the fields the server owns: set at creation
ServerCreate(body, version, now) ==
  [body EXCEPT !.metadata.resourceVersion = version,
               !.metadata.generation = 1,
               !.metadata.creationTimestamp = now]

\* the fields the server owns: kept over a replace; generation counts spec changes
ServerReplace(old, body, version) ==
  [body EXCEPT !.metadata.resourceVersion = version,
               !.metadata.generation =
                  IF body.spec = old.spec THEN old.metadata.generation
                  ELSE old.metadata.generation + 1,
               !.metadata.creationTimestamp = old.metadata.creationTimestamp,
               !.metadata.deletionTimestamp = old.metadata.deletionTimestamp,
               !.status = old.status]

\* a replace that overwrites whatever version is stored
ReplaceNamespaced_unconditional(store, name, body, version) ==
  IF name \notin DOMAIN store THEN [code |-> 404, store |-> store]
  ELSE [code |-> 200,
        store |-> [store EXCEPT ![name] = ServerReplace(store[name], body, version)]]

\* PUT with metadata.resourceVersion: 404 when absent, 409 when the version is stale
ReplaceNamespaced(store, name, body, version) ==
  IF name \notin DOMAIN store THEN [code |-> 404, store |-> store]
  ELSE IF /\ body.metadata.resourceVersion # Undefined
          /\ body.metadata.resourceVersion # store[name].metadata.resourceVersion
       THEN [code |-> 409, store |-> store]
  ELSE [code |-> 200,
        store |-> [store EXCEPT ![name] = ServerReplace(store[name], body, version)]]

\* POST: 409 when an object of that name exists
CreateNamespaced(store, name, body, version, now) ==
  IF name \in DOMAIN store THEN [code |-> 409, store |-> store]
  ELSE [code |-> 201,
        store |-> [n \in DOMAIN store \cup {name} |->
                     IF n = name THEN ServerCreate(body, version, now)
                     ELSE store[n]]]

\* DELETE: 404 when absent
DeleteNamespaced(store, name) ==
  IF name \notin DOMAIN store THEN [code |-> 404, store |-> store]
  ELSE [code |-> 200, store |-> [n \in DOMAIN store \ {name} |-> store[n]]]

(***************************************************************************)
(* Objects written by upsertAppResources.                                  *)
(***************************************************************************)
EmptyStatus ==
  [conditions |-> <<>>, readyReplicas |-> Undefined,
   availableReplicas |-> Undefined, replicas |-> Undefined,
   observedGeneration |-> Undefined]

ObjectMeta(name, labels, annotations) ==
  [name |-> name, labels |-> labels, annotations |-> annotations,
   resourceVersion |-> Undefined, generation |-> Undefined,
   creationTimestamp |-> Undefined, deletionTimestamp |-> FALSE]

deploymentBody(app, databaseUrl, replicas) ==
  [metadata |-> ObjectMeta(appResourceNames(app).deployment, labelsForApp(app),
                           annotationsForApp(app, "deploying")),
   spec |-> [replicas |-> replicas,
             selector |-> selectorLabelsForApp(app),
             container |-> APP_CONTAINER_NAME,
             image |-> app.image,
             env |-> [PORT |-> APP_PORT, DATABASE_URL |-> databaseUrl]],
   status |-> EmptyStatus]

serviceBody(app) ==
  [metadata |-> ObjectMeta(appResourceNames(app).service, labelsForApp(app),
                           annotationsForApp(app, "deploying")),
   spec |-> [selector |-> selectorLabelsForApp(app),
             port |-> SERVICE_PORT, targetPort |-> APP_PORT],
   status |-> EmptyStatus]

ingressBody(app) ==
  [metadata |-> ObjectMeta(appResourceNames(app).ingress, labelsForApp(app),
                           annotationsForApp(app, "deploying")),
   spec |-> [host |-> safeHostForAppUrl(app.url, app.name),
             service |-> appResourceNames(app).service,
             port |-> SERVICE_PORT],
   status |-> EmptyStatus]

(***************************************************************************)
(* Schema provisioner.                                                     *)
(***************************************************************************)
\* `app_${appId.replace(/[^a-zA-Z0-9_]/g, '_')}`
schemaName(appId) ==
  <<"app_">> \o
  [i \in 1..Len(appId) |->
     IF ToLowerChar(appId[i]) \in AlnumChars \cup {"_"} THEN appId[i] ELSE "_"]

databaseUrlForApp(appId) == <<"postgresql://">> \o schemaName(appId)

(***************************************************************************)
(* Lookups of KubernetesDeployer.  A lookup either throws or returns a     *)
(* record or null.                                                         *)
(***************************************************************************)
DecodableMatches(store, selector, now) ==
  {d \in ListNamespaced(store, selector) : deploymentToRecord(d, now) # NoRecord}

FindResult(matches, now) ==
  IF Cardinality(matches) > 1 THEN [threw |-> TRUE, value |-> NoRecord]
  ELSE IF matches = {} THEN [threw |-> FALSE, value |-> NoRecord]
  ELSE [threw |-> FALSE,
        value |-> deploymentToRecord(CHOOSE d \in matches : TRUE, now)]

NameSelector(owner, name) ==
  [managedBy |-> CONTROL_PLANE_LABEL_VALUE,
   owner |-> toLabelValue(normalizeOwner(owner)),
   name |-> toLabelValue(name)]

IdSelector(appId) ==
  [managedBy |-> CONTROL_PLANE_LABEL_VALUE, appId |-> toLabelValue(appId)]

findAppByOwnerAndName(store, owner, name, now) ==
  FindResult(DecodableMatches(store, NameSelector(owner, name), now), now)

findAppById(store, appId, now) ==
  FindResult(DecodableMatches(store, IdSelector(appId), now), now)

\* history: number of deployment objects carrying the identity labels of a lookup
LabelMatches(store, selector) == Cardinality(ListNamespaced(store, selector))

(***************************************************************************)
(* Inputs.                                                                 *)
(***************************************************************************)
HexSeq ==
  <<"0", "1", "2", "3", "4", "5", "6", "7", "8", "9", "a", "b", "c", "d", "e", "f">>

\* the n-th value of randomUUID(): values never repeat
RandomUUID(n) == <<HexSeq[(n \div 16) + 1], HexSeq[(n % 16) + 1], "-", "4">>

\* session tokens accepted by UUID_REGEX, which ignores case
Tokens == {<<"a", "1">>, <<"A", "1">>, <<"b", "2">>}

\* the tokens that deploy apps in the specifications below
Deployers == {<<"a", "1">>, <<"b", "2">>}

\* config.adminTokens
AdminTokens == {<<"b", "2">>}

\* names accepted by APP_NAME_REGEX
AppNames == {<<"m">>}

\* descriptions accepted by upsertAppSchema: at most 300 characters
Descriptions == {<<>>, <<"h">>}

ImageTags == {<<"1">>, <<"2">>}

ImageFor(owner, name, tag) ==
  RegistryHost \o <<"/">> \o owner \o <<"/">> \o name \o <<":">> \o tag

ImagesFor(owner, name) ==
  {ImageFor(owner, name, tag) : tag \in ImageTags}
  \cup {ImageFor(other, name, <<"1">>) : other \in Deployers \ {owner}}

(***************************************************************************)
(* State.                                                                  *)
(***************************************************************************)
VARIABLES
  deployments,      \* orchestrator: deployment objects by name
  services,         \* orchestrator: service objects by name
  ingresses,        \* orchestrator: ingress (route) objects by name
  resourceVersion,  \* orchestrator: the last version token handed out
  schemas,          \* schema provisioner: the schemas that exist
  clock,            \* Date.now()
  uuids,            \* number of values randomUUID() has returned
  calls,            \* number of mutating service calls that may still start
  pc,               \* per request slot: the await the request is suspended at
  call,             \* per request slot: the service operation and its input
  loc,              \* per request slot: the locals of the operation
  resp,             \* per request slot: the outcome of the operation
  lastOk,           \* history: per (owner, name), the last successful upsertApp
  pods,             \* orchestrator: the pods, in the order a list returns them
  walk,             \* a client that follows next_cursor through a pod's log
  probe,            \* a deployment object handed to statusFromDeployment
  deployer,         \* KubernetesDeployer: enabled and initError, set by the constructor
  tool              \* deploy tool: the environment and the DeployApp call in progress

vars ==
  <<deployments, services, ingresses, resourceVersion, schemas, clock, uuids,
    calls, pc, call, loc, resp, lastOk, pods, walk, probe, deployer, tool>>

\* what the service operations never write
aside == <<pods, walk, probe, deployer, tool>>

orchestrator == <<deployments, services, ingresses, resourceVersion>>

Procs == {1, 2}

NoCall ==
  [op |-> "none", owner |-> <<>>, isAdmin |-> FALSE, name |-> <<>>,
   description |-> <<>>, image |-> <<>>, appId |-> <<>>,
   includeAll |-> FALSE, cursor |-> <<>>, limit |-> 0]

NoLoc ==
  [now |-> Undefined, existing |-> NoRecord, app |-> NoRecord,
   kind |-> "none", read |-> NoRecord, pending |-> {},
   k8sCalls |-> 0, pgCalls |-> 0, writes |-> <<>>, prev |-> NoRecord,
   depVersion |-> Undefined, depWritten |-> Undefined, matched |-> 0,
   deletes |-> {}, fetches |-> <<>>]

NoResp == [ok |-> FALSE, status |-> 0, code |-> "none", body |-> NoRecord]

OkResp(body) == [ok |-> TRUE, status |-> 200, code |-> "ok", body |-> body]

\* the error thrown by the operation: an ApiError, an orchestrator
\* ApiException (status = its HTTP code) or a plain Error (status 500)
ErrResp(status, code) ==
  [ok |-> FALSE, status |-> status, code |-> code, body |-> NoRecord]

EmptyStore == [n \in {} |-> NoRecord]

NoWalk ==
  [limit |-> 0, cursor |-> <<>>, pages |-> <<>>, finished |-> TRUE]

NoProbe == [deployment |-> NoRecord, status |-> "none"]

\* the constructor resolved a kubeconfig and made the three API clients
Enabled == [enabled |-> TRUE, initError |-> <<>>]

\* ensureEnabled: Error(`Kubernetes client is not available: ${reason}`)
NotAvailable ==
  [ok |-> FALSE, status |-> 500, code |-> "client_not_available",
   body |-> [reason |-> deployer.initError]]

\* the deploy tool before a DeployApp call
NoTool ==
  [pc |-> "idle", env |-> [registryOnly |-> <<>>, controlPlaneURL |-> <<>>],
   input |-> [name |-> <<>>, description |-> <<>>, url |-> <<>>],
   image |-> <<>>, steps |-> <<>>, failed |-> {}, workDir |-> "none", err |-> "none",
   out |-> NoRecord]

\* the state after construction, before any request
Start(budget) ==
  /\ deployer = Enabled
  /\ tool = NoTool
  /\ deployments = EmptyStore
  /\ services = EmptyStore
  /\ ingresses = EmptyStore
  /\ resourceVersion = 0
  /\ schemas = {}
  /\ clock = 0
  /\ uuids = 0
  /\ calls = budget
  /\ pc = [p \in Procs |-> "idle"]
  /\ call = [p \in Procs |-> NoCall]
  /\ loc = [p \in Procs |-> NoLoc]
  /\ resp = [p \in Procs |-> NoResp]
  /\ lastOk = EmptyStore

Init ==
  /\ Start(MaxCalls)
  /\ pods = <<>>
  /\ walk = NoWalk
  /\ probe = NoProbe

InitSeq ==
  /\ Start(MaxSeqCalls)
  /\ pods = <<>>
  /\ walk = NoWalk
  /\ probe = NoProbe

AppKey(owner, name) == <<toLabelValue(normalizeOwner(owner)), toLabelValue(name)>>

StoreOf(kind) ==
  CASE kind = "deployment" -> deployments
    [] kind = "service" -> services
    [] kind = "ingress" -> ingresses

SetStore(kind, store) ==
  /\ deployments' = IF kind = "deployment" THEN store ELSE deployments
  /\ services' = IF kind = "service" THEN store ELSE services
  /\ ingresses' = IF kind = "ingress" THEN store ELSE ingresses

\* the operation goes on to its next await
Advance(p, label, locals) ==
  /\ pc' = [pc EXCEPT ![p] = label]
  /\ loc' = [loc EXCEPT ![p] = locals]
  /\ UNCHANGED resp

\* the operation returns or throws
Complete(p, response, locals) ==
  /\ pc' = [pc EXCEPT ![p] = "done"]
  /\ loc' = [loc EXCEPT ![p] = locals]
  /\ resp' = [resp EXCEPT ![p] = response]

K8sCall(locals) == [locals EXCEPT !.k8sCalls = @ + 1]

ReadOnlyOps == {"getApp", "listApps", "getLogs"}

\* a request arrives; the model bounds the number of mutating requests
Begin(p, input) ==
  /\ pc[p] = "idle"
  /\ IF input.op \in ReadOnlyOps THEN UNCHANGED calls
     ELSE calls > 0 /\ calls' = calls - 1
  /\ call' = [call EXCEPT ![p] = input]

\* the request handler has answered: the slot is free again
Return(p) ==
  /\ pc[p] = "done"
  /\ pc' = [pc EXCEPT ![p] = "idle"]
  /\ call' = [call EXCEPT ![p] = NoCall]
  /\ loc' = [loc EXCEPT ![p] = NoLoc]
  /\ resp' = [resp EXCEPT ![p] = NoResp]
  /\ UNCHANGED <<aside, orchestrator, schemas, clock, uuids, calls, lastOk>>

\* time passes; the clock counts hours, so it moves between requests only
Tick ==
  /\ clock < MaxClock
  /\ \A p \in Procs : pc[p] = "idle"
  /\ clock' = clock + 1
  /\ UNCHANGED <<aside, orchestrator, schemas, uuids, calls, pc, call, loc, resp, lastOk>>

(***************************************************************************)
(* AppService.upsertApp.                                                   *)
(***************************************************************************)
\* Date.now() + config.defaultAppTtlHours hours, under the configuration loaded
computeTtlExpiryUnder(config, now) == now + config.defaultAppTtlHours

\* the configuration of an environment that does not set DEFAULT_APP_TTL_HOURS
computeTtlExpiry(now) ==
  computeTtlExpiryUnder([defaultAppTtlHours |-> DefaultAppTtlHours], now)

\* history: what the last successful upsertApp of this (owner, name) returned
PrevOk(owner, name) ==
  IF AppKey(owner, name) \in DOMAIN lastOk THEN lastOk[AppKey(owner, name)]
  ELSE NoRecord

\* every image passes the namespace check
imageInNamespace_any(owner, name, image) == TRUE

\* lines 153-155: image.startsWith(`${expectedRepository}:`)
imageInNamespace(owner, name, image) ==
  LET expectedRepository == RegistryHost \o <<"/">> \o owner \o <<"/">> \o name
  IN  StartsWith(image, expectedRepository \o <<":">>)

\* lines 166-178: the record of the app; identifiers and created_at are kept
\* from the record the lookup returned, or drawn when it returned null
buildAppRecord(c, existing, now, drawn) ==
  LET fresh == existing = NoRecord
  IN  [app_id |-> IF fresh THEN RandomUUID(drawn + 1) ELSE existing.app_id,
       deployment_id |-> IF fresh THEN RandomUUID(drawn + 2)
                         ELSE existing.deployment_id,
       owner |-> c.owner,
       name |-> c.name,
       description |-> c.description,
       image |-> c.image,
       url |-> UrlFor(c.name),
       status |-> "deploying",
       created_at |-> IF fresh THEN now ELSE existing.created_at,
       updated_at |-> now,
       ttl_expiry |-> computeTtlExpiry(now)]

\* lines 152-163: the namespace check, then url, now and ttlExpiry
upsertApp(p, owner, name, description, image) ==
  /\ Begin(p, [NoCall EXCEPT !.op = "upsertApp", !.owner = owner,
                             !.isAdmin = owner \in AdminTokens, !.name = name,
                             !.description = description, !.image = image])
  /\ LET locals == [NoLoc EXCEPT !.now = clock, !.prev = PrevOk(owner, name)]
     IN  IF ~imageInNamespace(owner, name, image)
         THEN Complete(p, ErrResp(400, "invalid_image_namespace"), locals)
         ELSE Advance(p, "upsert_find", locals)
  /\ UNCHANGED <<aside, orchestrator, schemas, clock, uuids, lastOk>>

\* a lookup that goes to the orchestrator whatever the constructor found
upsertApp_find_unchecked(p) ==
  /\ pc[p] = "upsert_find"
  /\ LET c == call[p]
         found == findAppByOwnerAndName(deployments, c.owner, c.name, clock)
         existing == found.value
         fresh == existing = NoRecord
         app == buildAppRecord(c, existing, loc[p].now, uuids)
         locals == [K8sCall(loc[p]) EXCEPT
                      !.existing = existing,
                      !.matched = LabelMatches(deployments, NameSelector(c.owner, c.name))]
     IN  IF found.threw
         THEN /\ Complete(p, ErrResp(500, "multiple_deployments"), locals)
              /\ UNCHANGED uuids
         ELSE /\ Advance(p, "upsert_schema", [locals EXCEPT !.app = app])
              /\ uuids' = IF fresh THEN uuids + 2 ELSE uuids
  /\ UNCHANGED <<aside, orchestrator, schemas, clock, calls, call, lastOk>>

\* lines 164-178: look the app up, keep or draw its identifiers
upsertApp_find(p) ==
  /\ pc[p] = "upsert_find"
  /\ LET c == call[p]
         found == findAppByOwnerAndName(deployments, c.owner, c.name, clock)
         existing == found.value
         fresh == existing = NoRecord
         app == buildAppRecord(c, existing, loc[p].now, uuids)
         locals == [K8sCall(loc[p]) EXCEPT
                      !.existing = existing,
                      !.matched = LabelMatches(deployments, NameSelector(c.owner, c.name))]
     IN  IF ~deployer.enabled
         THEN /\ Complete(p, NotAvailable, loc[p])
              /\ UNCHANGED uuids
         ELSE IF found.threw
         THEN /\ Complete(p, ErrResp(500, "multiple_deployments"), locals)
              /\ UNCHANGED uuids
         ELSE /\ Advance(p, "upsert_schema", [locals EXCEPT !.app = app])
              /\ uuids' = IF fresh THEN uuids + 2 ELSE uuids
  /\ UNCHANGED <<aside, orchestrator, schemas, clock, calls, call, lastOk>>

\* line 180: postgresProvisioner.ensureSchema(app.app_id)
upsertApp_ensureSchema(p) ==
  /\ pc[p] = "upsert_schema"
  /\ schemas' = schemas \cup {schemaName(loc[p].app.app_id)}
  /\ Advance(p, "read", [loc[p] EXCEPT !.kind = "deployment", !.pgCalls = @ + 1])
  /\ UNCHANGED <<aside, orchestrator, clock, uuids, calls, call, lastOk>>

(***************************************************************************)
(* KubernetesDeployer.upsertAppResources: createOrReplace of the           *)
(* deployment, then of the service, then of the ingress.                   *)
(***************************************************************************)
BodyFor(kind, app) ==
  CASE kind = "deployment" -> deploymentBody(app, databaseUrlForApp(app.app_id), 1)
    [] kind = "service" -> serviceBody(app)
    [] kind = "ingress" -> ingressBody(app)

\* the route is written before the service
NextKind_routeFirst(kind) ==
  CASE kind = "deployment" -> "ingress"
    [] kind = "ingress" -> "service"
    [] OTHER -> "ingress"

NextKind(kind) == IF kind = "deployment" THEN "service" ELSE "ingress"

UpsertAppResponse(app) ==
  OkResp([app_id |-> app.app_id, deployment_id |-> app.deployment_id,
          url |-> app.url, status |-> app.status])

\* history record kept for a successful upsertApp
OkEntry(c, app) ==
  [app_id |-> app.app_id, deployment_id |-> app.deployment_id,
   token |-> c.owner,
   description |-> c.description, image |-> c.image,
   deployment |-> appResourceNames(app).deployment,
   annotations |-> annotationsForApp(app, "deploying")]

\* the object of this kind is written: go on with the next kind, or return
Written(p, kind, locals) ==
  LET done == [locals EXCEPT !.writes = Append(@, kind)]
      key == AppKey(call[p].owner, call[p].name)
  IN  IF kind = "ingress"
      THEN /\ Complete(p, UpsertAppResponse(done.app), done)
           /\ lastOk' = [k \in DOMAIN lastOk \cup {key} |->
                           IF k = key THEN OkEntry(call[p], done.app) ELSE lastOk[k]]
      ELSE /\ Advance(p, "read", [done EXCEPT !.kind = NextKind(kind), !.read = NoRecord])
           /\ UNCHANGED lastOk

\* readNamespaced<Kind>: a 404 leads to the create in the catch block
createOrReplace_read(p, kind) ==
  /\ pc[p] = "read"
  /\ loc[p].kind = kind
  /\ LET name == BodyFor(kind, loc[p].app).metadata.name
     IN  IF name \in DOMAIN StoreOf(kind)
         THEN Advance(p, "replace",
                      [K8sCall(loc[p]) EXCEPT
                         !.read = StoreOf(kind)[name],
                         !.depVersion =
                            IF kind = "deployment"
                            THEN StoreOf(kind)[name].metadata.resourceVersion
                            ELSE @])
         ELSE Advance(p, "create", K8sCall(loc[p]))
  /\ UNCHANGED <<aside, orchestrator, schemas, clock, uuids, calls, call, lastOk>>

\* a replace whose rejection as stale is answered with a create
createOrReplace_replace_fallback(p, kind) ==
  /\ pc[p] = "replace"
  /\ loc[p].kind = kind
  /\ LET body == [BodyFor(kind, loc[p].app) EXCEPT
                    !.metadata.resourceVersion = loc[p].read.metadata.resourceVersion]
         result == ReplaceNamespaced(StoreOf(kind), body.metadata.name, body,
                                     resourceVersion + 1)
     IN  IF result.code = 200
         THEN /\ SetStore(kind, result.store)
              /\ resourceVersion' = resourceVersion + 1
              /\ Written(p, kind,
                         [K8sCall(loc[p]) EXCEPT
                            !.depWritten = IF kind = "deployment"
                                           THEN resourceVersion + 1 ELSE @])
         ELSE /\ Advance(p, "create", K8sCall(loc[p]))
              /\ UNCHANGED <<orchestrator, lastOk>>
  /\ UNCHANGED <<aside, schemas, clock, uuids, calls, call>>

\* a replace that keeps the desired replicas of the deployment it read
createOrReplace_replace_keepsReplicas(p, kind) ==
  /\ pc[p] = "replace"
  /\ loc[p].kind = kind
  /\ LET versioned == [BodyFor(kind, loc[p].app) EXCEPT
                         !.metadata.resourceVersion = loc[p].read.metadata.resourceVersion]
         body == IF kind = "deployment"
                 THEN [versioned EXCEPT !.spec.replicas = loc[p].read.spec.replicas]
                 ELSE versioned
         result == ReplaceNamespaced(StoreOf(kind), body.metadata.name, body,
                                     resourceVersion + 1)
     IN  CASE result.code = 200 ->
                /\ SetStore(kind, result.store)
                /\ resourceVersion' = resourceVersion + 1
                /\ Written(p, kind,
                           [K8sCall(loc[p]) EXCEPT
                              !.depWritten = IF kind = "deployment"
                                             THEN resourceVersion + 1 ELSE @])
           [] result.code = 404 ->
                /\ Advance(p, "create", K8sCall(loc[p]))
                /\ UNCHANGED <<orchestrator, lastOk>>
           [] OTHER ->
                /\ Complete(p, ErrResp(result.code, "Conflict"), K8sCall(loc[p]))
                /\ UNCHANGED <<orchestrator, lastOk>>
  /\ UNCHANGED <<aside, schemas, clock, uuids, calls, call>>

\* replaceNamespaced<Kind> carrying the resourceVersion that was read
createOrReplace_replace(p, kind) ==
  /\ pc[p] = "replace"
  /\ loc[p].kind = kind
  /\ LET body == [BodyFor(kind, loc[p].app) EXCEPT
                    !.metadata.resourceVersion = loc[p].read.metadata.resourceVersion]
         result == ReplaceNamespaced(StoreOf(kind), body.metadata.name, body,
                                     resourceVersion + 1)
     IN  CASE result.code = 200 ->
                /\ SetStore(kind, result.store)
                /\ resourceVersion' = resourceVersion + 1
                /\ Written(p, kind,
                           [K8sCall(loc[p]) EXCEPT
                              !.depWritten = IF kind = "deployment"
                                             THEN resourceVersion + 1 ELSE @])
           [] result.code = 404 ->
                /\ Advance(p, "create", K8sCall(loc[p]))
                /\ UNCHANGED <<orchestrator, lastOk>>
           [] OTHER ->
                /\ Complete(p, ErrResp(result.code, "Conflict"), K8sCall(loc[p]))
                /\ UNCHANGED <<orchestrator, lastOk>>
  /\ UNCHANGED <<aside, schemas, clock, uuids, calls, call>>

\* createNamespaced<Kind> in the catch block
createOrReplace_create(p, kind) ==
  /\ pc[p] = "create"
  /\ loc[p].kind = kind
  /\ LET body == BodyFor(kind, loc[p].app)
         result == CreateNamespaced(StoreOf(kind), body.metadata.name, body,
                                    resourceVersion + 1, clock)
     IN  IF result.code = 201
         THEN /\ SetStore(kind, result.store)
              /\ resourceVersion' = resourceVersion + 1
              /\ Written(p, kind,
                         [K8sCall(loc[p]) EXCEPT
                            !.depWritten = IF kind = "deployment"
                                           THEN resourceVersion + 1 ELSE @])
         ELSE /\ Complete(p, ErrResp(result.code, "AlreadyExists"), K8sCall(loc[p]))
              /\ UNCHANGED <<orchestrator, lastOk>>
  /\ UNCHANGED <<aside, schemas, clock, uuids, calls, call>>

\* the catch block rethrows what is not a 404: an orchestrator call of
\* createOrReplace<Kind> answered with another error ends the operation
createOrReplace_error(p, kind) ==
  /\ pc[p] \in {"read", "replace", "create"}
  /\ loc[p].kind = kind
  /\ Complete(p, ErrResp(500, "InternalError"), K8sCall(loc[p]))
  /\ UNCHANGED <<aside, orchestrator, schemas, clock, uuids, calls, call, lastOk>>

createOrReplace(p, kind) ==
  \/ createOrReplace_read(p, kind)
  \/ createOrReplace_replace(p, kind)
  \/ createOrReplace_create(p, kind)

createOrReplaceDeployment(p) == createOrReplace(p, "deployment")

createOrReplaceService(p) == createOrReplace(p, "service")

createOrReplaceIngress(p) == createOrReplace(p, "ingress")

(***************************************************************************)
(* AppService.getApp, stopApp, startApp, deleteApp, getLogs: each looks    *)
(* the app up by id and answers 404 unless it exists and is the caller's.  *)
(***************************************************************************)
ById(op, owner, appId) ==
  [NoCall EXCEPT !.op = op, !.owner = owner, !.isAdmin = owner \in AdminTokens,
                 !.appId = appId]

BeginById(p, op, owner, appId) ==
  /\ Begin(p, ById(op, owner, appId))
  /\ Advance(p, "find_id", [NoLoc EXCEPT !.now = clock])
  /\ UNCHANGED <<aside, orchestrator, schemas, clock, uuids, lastOk>>

toAppDetail(app) ==
  [app_id |-> app.app_id, deployment_id |-> app.deployment_id,
   name |-> app.name, description |-> app.description, url |-> app.url,
   status |-> app.status, created_at |-> app.created_at,
   updated_at |-> app.updated_at, image |-> app.image,
   ttl_expiry |-> app.ttl_expiry, owner |-> app.owner]

toAppSummary(app) ==
  [app_id |-> app.app_id, name |-> app.name, status |-> app.status,
   url |-> app.url]

\* an owner check that tells the caller the app exists
OwnerCheck_forbidden(app, owner) ==
  IF app = NoRecord THEN ErrResp(404, "not_found")
  ELSE IF app.owner # owner THEN ErrResp(403, "forbidden")
  ELSE OkResp(app)

\* if (!app || app.owner !== owner) throw new ApiError(404, 'not_found', ...)
OwnerCheck(app, owner) ==
  IF app = NoRecord THEN ErrResp(404, "not_found")
  ELSE IF app.owner # owner THEN ErrResp(404, "not_found")
  ELSE OkResp(app)

\* findAppById, then the owner check; continue(app) is the rest of the operation
FindOwned(p, op, Continue(_, _)) ==
  /\ pc[p] = "find_id"
  /\ call[p].op = op
  /\ LET found == findAppById(deployments, call[p].appId, clock)
         checked == OwnerCheck(found.value, call[p].owner)
         locals == [K8sCall(loc[p]) EXCEPT
                      !.existing = found.value,
                      !.matched = LabelMatches(deployments, IdSelector(call[p].appId))]
     IN  IF ~deployer.enabled THEN Complete(p, NotAvailable, loc[p])
         ELSE IF found.threw
         THEN Complete(p, ErrResp(500, "multiple_deployments"), locals)
         ELSE IF ~checked.ok THEN Complete(p, checked, locals)
         ELSE Continue(found.value, [locals EXCEPT !.app = found.value])
  /\ UNCHANGED <<aside, orchestrator, schemas, clock, uuids, calls, call, lastOk>>

getApp(p, owner, appId) == BeginById(p, "getApp", owner, appId)

getApp_find(p) ==
  FindOwned(p, "getApp", LAMBDA app, locals : Complete(p, OkResp(toAppDetail(app)), locals))

stopApp(p, owner, appId) == BeginById(p, "stopApp", owner, appId)

stopApp_find(p) ==
  FindOwned(p, "stopApp", LAMBDA app, locals : Advance(p, "replicas_read", locals))

startApp(p, owner, appId) == BeginById(p, "startApp", owner, appId)

startApp_find(p) ==
  FindOwned(p, "startApp", LAMBDA app, locals : Advance(p, "replicas_read", locals))

deleteApp(p, owner, appId) == BeginById(p, "deleteApp", owner, appId)

\* a deleteApp that drops the schema of the app id before the owner check
deleteApp_find_dropsFirst(p) ==
  /\ pc[p] = "find_id"
  /\ call[p].op = "deleteApp"
  /\ LET found == findAppById(deployments, call[p].appId, clock)
         checked == OwnerCheck(found.value, call[p].owner)
         locals == [K8sCall(loc[p]) EXCEPT !.existing = found.value, !.pgCalls = @ + 1]
     IN  /\ schemas' = schemas \ {schemaName(call[p].appId)}
         /\ IF ~checked.ok THEN Complete(p, checked, locals)
            ELSE Advance(p, "delete",
                         [locals EXCEPT !.app = found.value,
                                        !.pending = {"ingress", "service", "deployment"}])
  /\ UNCHANGED <<aside, orchestrator, clock, uuids, calls, call, lastOk>>

deleteApp_find(p) ==
  FindOwned(p, "deleteApp",
            LAMBDA app, locals :
              Advance(p, "delete",
                      [locals EXCEPT !.pending = {"ingress", "service", "deployment"}]))

getLogs(p, owner, appId, cursor, limit) ==
  /\ Begin(p, [ById("getLogs", owner, appId) EXCEPT !.cursor = cursor, !.limit = limit])
  /\ Advance(p, "find_id", [NoLoc EXCEPT !.now = clock])
  /\ UNCHANGED <<aside, orchestrator, schemas, clock, uuids, lastOk>>

getLogs_find(p) ==
  FindOwned(p, "getLogs", LAMBDA app, locals : Advance(p, "logs_pods", locals))

(***************************************************************************)
(* KubernetesDeployer.setAppReplicas: read, replace, look up again.        *)
(***************************************************************************)
ReplicasFor(op) == IF op = "stopApp" THEN 0 ELSE 1

StatusFor(op) == IF op = "stopApp" THEN "stopped" ELSE "deploying"

\* a successor that does not carry the version of the deployment read
setAppReplicas_read_unversioned(p) ==
  /\ pc[p] = "replicas_read"
  /\ LET name == appResourceNames(loc[p].app).deployment
         deployment == deployments[name]
         nextDeployment ==
           [deployment EXCEPT
              !.metadata.resourceVersion = Undefined,
              !.metadata.annotations.updated_at = clock,
              !.metadata.annotations.status = StatusFor(call[p].op),
              !.spec.replicas = ReplicasFor(call[p].op)]
     IN  IF name \in DOMAIN deployments
         THEN Advance(p, "replicas_replace",
                      [K8sCall(loc[p]) EXCEPT
                         !.read = nextDeployment,
                         !.depVersion = deployment.metadata.resourceVersion])
         ELSE Complete(p, ErrResp(404, "NotFound"), K8sCall(loc[p]))
  /\ UNCHANGED <<aside, orchestrator, schemas, clock, uuids, calls, call, lastOk>>

\* lines 610-635: read the deployment and build its successor
setAppReplicas_read(p) ==
  /\ pc[p] = "replicas_read"
  /\ LET name == appResourceNames(loc[p].app).deployment
         deployment == deployments[name]
         nextDeployment ==
           [deployment EXCEPT
              !.metadata.annotations.updated_at = clock,
              !.metadata.annotations.status = StatusFor(call[p].op),
              !.spec.replicas = ReplicasFor(call[p].op)]
     IN  IF name \in DOMAIN deployments
         THEN Advance(p, "replicas_replace",
                      [K8sCall(loc[p]) EXCEPT
                         !.read = nextDeployment,
                         !.depVersion = deployment.metadata.resourceVersion])
         ELSE Complete(p, ErrResp(404, "NotFound"), K8sCall(loc[p]))
  /\ UNCHANGED <<aside, orchestrator, schemas, clock, uuids, calls, call, lastOk>>

\* lines 637-641: replace carrying the resourceVersion of the read
setAppReplicas_replace(p) ==
  /\ pc[p] = "replicas_replace"
  /\ LET body == loc[p].read
         result == ReplaceNamespaced(deployments, body.metadata.name, body,
                                     resourceVersion + 1)
     IN  IF result.code = 200
         THEN /\ deployments' = result.store
              /\ resourceVersion' = resourceVersion + 1
              /\ Advance(p, "replicas_find",
                         [K8sCall(loc[p]) EXCEPT !.writes = Append(@, "deployment")])
         ELSE /\ Complete(p, ErrResp(result.code,
                                     IF result.code = 409 THEN "Conflict" ELSE "NotFound"),
                          K8sCall(loc[p]))
              /\ UNCHANGED <<deployments, resourceVersion>>
  /\ UNCHANGED <<aside, services, ingresses, schemas, clock, uuids, calls, call, lastOk>>

\* lines 643-648: the record returned is derived from what is stored now
setAppReplicas_find(p) ==
  /\ pc[p] = "replicas_find"
  /\ LET found == findAppById(deployments, loc[p].app.app_id, clock)
         updated == found.value
     IN  IF found.threw
         THEN Complete(p, ErrResp(500, "multiple_deployments"), K8sCall(loc[p]))
         ELSE IF updated = NoRecord
         THEN Complete(p, ErrResp(500, "deployment_disappeared"), K8sCall(loc[p]))
         ELSE Complete(p, OkResp([app_id |-> updated.app_id, status |-> updated.status]),
                       K8sCall(loc[p]))
  /\ UNCHANGED <<aside, orchestrator, schemas, clock, uuids, calls, call, lastOk>>

(***************************************************************************)
(* KubernetesDeployer.deleteAppResources: the three deletes are issued     *)
(* together and answered in any order; then AppService drops the schema.   *)
(***************************************************************************)
NameOfKind(kind, app) ==
  CASE kind = "deployment" -> appResourceNames(app).deployment
    [] kind = "service" -> appResourceNames(app).service
    [] kind = "ingress" -> appResourceNames(app).ingress

\* a deleteApp that drops the schema once every delete is answered, whatever
\* the answers were
AfterDeletes_whateverTheAnswers(p, pending) ==
  IF pending # {} THEN "delete" ELSE "drop_schema"

\* the await of Promise.all once every delete is settled: dropSchema follows
\* unless one of the deletes has rejected
AfterDeletes(p, pending) ==
  IF pending # {} THEN "delete"
  ELSE IF resp[p] = NoResp THEN "drop_schema"
  ELSE "done"

\* a delete whose not-found answer is an error like any other
deleteAppResources_strict(p, kind) ==
  /\ pc[p] = "delete"
  /\ kind \in loc[p].pending
  /\ LET result == DeleteNamespaced(StoreOf(kind), NameOfKind(kind, loc[p].app))
         locals == [K8sCall(loc[p]) EXCEPT
                      !.pending = @ \ {kind},
                      !.deletes = @ \cup {[kind |-> kind, code |-> result.code]}]
         key == AppKey(loc[p].app.owner, loc[p].app.name)
         rejected == resp[p] # NoResp \/ result.code = 404
     IN  /\ SetStore(kind, result.store)
         /\ pc' = [pc EXCEPT ![p] = IF locals.pending # {} THEN "delete"
                                    ELSE IF rejected THEN "done"
                                    ELSE "drop_schema"]
         /\ loc' = [loc EXCEPT ![p] = locals]
         /\ resp' = [resp EXCEPT ![p] = IF result.code = 404 /\ @ = NoResp
                                        THEN ErrResp(404, "NotFound") ELSE @]
         /\ lastOk' = IF kind = "deployment" /\ result.code = 200
                      THEN [k \in DOMAIN lastOk \ {key} |-> lastOk[k]]
                      ELSE lastOk
  /\ UNCHANGED <<aside, resourceVersion, schemas, clock, uuids, calls, call>>

\* one of the pending deletes is answered: 200, or 404 which is swallowed
deleteAppResources(p, kind) ==
  /\ pc[p] = "delete"
  /\ kind \in loc[p].pending
  /\ LET result == DeleteNamespaced(StoreOf(kind), NameOfKind(kind, loc[p].app))
         locals == [K8sCall(loc[p]) EXCEPT
                      !.pending = @ \ {kind},
                      !.deletes = @ \cup {[kind |-> kind, code |-> result.code]}]
         key == AppKey(loc[p].app.owner, loc[p].app.name)
     IN  /\ SetStore(kind, result.store)
         /\ Advance(p, AfterDeletes(p, locals.pending), locals)
         /\ lastOk' = IF kind = "deployment" /\ result.code = 200
                      THEN [k \in DOMAIN lastOk \ {key} |-> lastOk[k]]
                      ELSE lastOk
  /\ UNCHANGED <<aside, resourceVersion, schemas, clock, uuids, calls, call>>

\* one of the pending deletes is answered with an error that is not 404: the
\* Promise.all rejects with the first such error; the deletes still pending
\* were issued and are answered before the slot is taken again
deleteAppResources_error(p, kind) ==
  /\ pc[p] = "delete"
  /\ kind \in loc[p].pending
  /\ LET locals == [K8sCall(loc[p]) EXCEPT
                      !.pending = @ \ {kind},
                      !.deletes = @ \cup {[kind |-> kind, code |-> 500]}]
     IN  /\ pc' = [pc EXCEPT ![p] = IF locals.pending = {} THEN "done" ELSE "delete"]
         /\ loc' = [loc EXCEPT ![p] = locals]
         /\ resp' = [resp EXCEPT ![p] = IF @ = NoResp THEN ErrResp(500, "InternalError")
                                        ELSE @]
  /\ UNCHANGED <<aside, orchestrator, schemas, clock, uuids, calls, call, lastOk>>

\* lines 266-271 of app.ts: dropSchema, then the answer
deleteApp_dropSchema(p) ==
  /\ pc[p] = "drop_schema"
  /\ schemas' = schemas \ {schemaName(loc[p].app.app_id)}
  /\ Complete(p, OkResp([app_id |-> loc[p].app.app_id, status |-> "deleting"]),
              [loc[p] EXCEPT !.pgCalls = @ + 1])
  /\ UNCHANGED <<aside, orchestrator, clock, uuids, calls, call, lastOk>>

(***************************************************************************)
(* AppService.listApps and KubernetesDeployer.listApps.                    *)
(***************************************************************************)
\* the orderings of a set of records that sort((a, b) => b.updated_at
\* .localeCompare(a.updated_at)) can return: the orchestrator fixes no order
SortedListings_unsorted(records) ==
  {data \in [1..Cardinality(records) -> records] :
     \A i, j \in DOMAIN data : i # j => data[i] # data[j]}

SortedListings(records) ==
  {data \in [1..Cardinality(records) -> records] :
     /\ \A i, j \in DOMAIN data : i # j => data[i] # data[j]
     /\ \A i, j \in DOMAIN data : i < j => data[i].updated_at >= data[j].updated_at}

\* a selector that never names an owner
ListSelector_everyOwner(owner) == [managedBy |-> CONTROL_PLANE_LABEL_VALUE]

ListSelector(owner) ==
  IF owner # <<>>
  THEN [managedBy |-> CONTROL_PLANE_LABEL_VALUE,
        owner |-> toLabelValue(normalizeOwner(owner))]
  ELSE [managedBy |-> CONTROL_PLANE_LABEL_VALUE]

ListedRecords(store, owner, now) ==
  {deploymentToRecord(d, now) : d \in DecodableMatches(store, ListSelector(owner), now)}

\* lines 206-209 of app.ts: listing every owner's apps needs admin scope
listApps(p, owner, includeAll) ==
  /\ Begin(p, [NoCall EXCEPT !.op = "listApps", !.owner = owner,
                             !.isAdmin = owner \in AdminTokens,
                             !.includeAll = includeAll])
  /\ IF includeAll /\ ~(owner \in AdminTokens)
     THEN Complete(p, ErrResp(403, "forbidden"), NoLoc)
     ELSE Advance(p, "list", [NoLoc EXCEPT !.now = clock])
  /\ UNCHANGED <<aside, orchestrator, schemas, clock, uuids, lastOk>>

\* lines 211-217 of app.ts and KubernetesDeployer.listApps
listApps_list(p) ==
  /\ pc[p] = "list"
  /\ LET owner == IF call[p].includeAll THEN <<>> ELSE call[p].owner
     IN  IF ~deployer.enabled THEN Complete(p, NotAvailable, loc[p])
         ELSE \E data \in SortedListings(ListedRecords(deployments, owner, clock)) :
                Complete(p, OkResp([data |-> [i \in DOMAIN data |-> toAppSummary(data[i])],
                                    records |-> data]),
                         K8sCall(loc[p]))
  /\ UNCHANGED <<aside, orchestrator, schemas, clock, uuids, calls, call, lastOk>>

(***************************************************************************)
(* LogReader.                                                              *)
(***************************************************************************)
RECURSIVE DecimalString(_)
\* String(offset)
DecimalString(n) ==
  IF n < 10 THEN <<HexSeq[n + 1]>>
  ELSE DecimalString(n \div 10) \o <<HexSeq[(n % 10) + 1]>>

DigitValue(c) == CHOOSE d \in 0..9 : HexSeq[d + 1] = c

RECURSIVE DecimalValue(_)
DecimalValue(digits) ==
  IF digits = <<>> THEN 0
  ELSE 10 * DecimalValue(SubSeq(digits, 1, Len(digits) - 1))
       + DigitValue(digits[Len(digits)])

IsDigits(raw) == raw # <<>> /\ \A i \in DOMAIN raw : raw[i] \in DigitChars

\* Number(raw) restricted to what the code tests: NaN and negatives are Undefined
NonNegativeNumber(raw) ==
  IF raw = <<>> THEN 0
  ELSE IF IsDigits(raw) THEN DecimalValue(raw)
  ELSE Undefined

\* Buffer.from(text, 'utf8').toString('base64url'): a tagged copy of the text
Base64Url(text) == <<"b64:">> \o text

\* Buffer.from(cursor, 'base64url').toString('utf8'): other input decodes to garbage
FromBase64Url(cursor) ==
  IF cursor # <<>> /\ cursor[1] = "b64:" THEN Tail(cursor) ELSE <<"?">>

\* a cursor that is the decimal offset itself
encodeCursor_plain(offset) == DecimalString(offset)

encodeCursor(offset) == Base64Url(DecimalString(offset))

decodeCursor(cursor) ==
  IF cursor = <<>> THEN 0
  ELSE OrElse(NonNegativeNumber(FromBase64Url(cursor)), 0)

TimestampTokens == {"T1", "T2"}

\* line.trim()
Trim(line) == StripTrailing(StripLeading(line, {" "}), {" "})

parseLogLine(line, now) ==
  LET trimmed == StripTrailing(line, {" "})
      spaces == {i \in DOMAIN trimmed : trimmed[i] = " "}
      firstSpace == IF spaces = {} THEN 0 ELSE MinOf(spaces)
  IN  IF firstSpace = 2 /\ trimmed[1] \in TimestampTokens
      THEN [timestamp |-> <<trimmed[1]>>, stream |-> "stdout",
            message |-> SubSeq(trimmed, firstSpace + 1, Len(trimmed))]
      ELSE [timestamp |-> DecimalString(now), stream |-> "stdout", message |-> trimmed]

\* pods.items of listNamespacedPod with the app's identity labels, in list order
PodsOf(podList, app) ==
  SelectSeq(podList,
            LAMBDA pod : /\ pod.labels.managedBy = CONTROL_PLANE_LABEL_VALUE
                         /\ pod.labels.appId = toLabelValue(app.app_id))

\* the pod started last, whatever the phases
SelectPod_latestOnly(items) ==
  LET time(i) == OrElse(items[i].startTime, 0)
      latest == {i \in DOMAIN items : \A j \in DOMAIN items : time(i) >= time(j)}
  IN  items[MinOf(latest)]

\* the first Running pod, else the first of those started last
SelectPod(items) ==
  LET running == {i \in DOMAIN items : items[i].phase = "Running"}
      time(i) == OrElse(items[i].startTime, 0)
      latest == {i \in DOMAIN items : \A j \in DOMAIN items : time(i) >= time(j)}
  IN  IF running # {} THEN items[MinOf(running)] ELSE items[MinOf(latest)]

\* readNamespacedPodLog with tailLines: the last TailLines lines
TailWindow(log) ==
  IF Len(log) <= TailLines THEN log ELSE SubSeq(log, Len(log) - TailLines + 1, Len(log))

\* a page that hands out a cursor although no line is left
LogsPage_cursorAtEnd(rawLines, cursor, limit, now) ==
  LET trimmedLines == [i \in DOMAIN rawLines |-> Trim(rawLines[i])]
      lines == SelectSeq(trimmedLines, LAMBDA line : line # <<>>)
      offset == decodeCursor(cursor)
      last == IF offset + limit < Len(lines) THEN offset + limit ELSE Len(lines)
      slice == SubSeq(lines, offset + 1, last)
      page == [i \in DOMAIN slice |-> parseLogLine(slice[i], now)]
      nextOffset == offset + Len(page)
  IN  [data |-> page,
       next_cursor |-> IF nextOffset <= Len(lines) THEN encodeCursor(nextOffset) ELSE <<>>]

\* lines 748-759: split, trim, drop empty lines, cut the page
LogsPage(rawLines, cursor, limit, now) ==
  LET trimmedLines == [i \in DOMAIN rawLines |-> Trim(rawLines[i])]
      lines == SelectSeq(trimmedLines, LAMBDA line : line # <<>>)
      offset == decodeCursor(cursor)
      last == IF offset + limit < Len(lines) THEN offset + limit ELSE Len(lines)
      slice == SubSeq(lines, offset + 1, last)
      page == [i \in DOMAIN slice |-> parseLogLine(slice[i], now)]
      nextOffset == offset + Len(page)
  IN  [data |-> page,
       next_cursor |-> IF nextOffset < Len(lines) THEN encodeCursor(nextOffset) ELSE <<>>]

EmptyPage == [data |-> <<>>, next_cursor |-> <<>>]

readLogs(podList, app, cursor, limit, now) ==
  LET items == PodsOf(podList, app)
  IN  IF items = <<>> THEN EmptyPage
      ELSE IF SelectPod(items).name = <<>> THEN EmptyPage
      ELSE LogsPage(TailWindow(SelectPod(items).log), cursor, limit, now)

\* lines 699-723: list the pods of the app and select one
getLogs_pods(p) ==
  /\ pc[p] = "logs_pods"
  /\ LET items == PodsOf(pods, loc[p].app)
     IN  IF items = <<>> \/ SelectPod(items).name = <<>>
         THEN Complete(p, OkResp(EmptyPage), K8sCall(loc[p]))
         ELSE Advance(p, "logs_read", [K8sCall(loc[p]) EXCEPT !.read = SelectPod(items)])
  /\ UNCHANGED <<aside, orchestrator, schemas, clock, uuids, calls, call, lastOk>>

\* an orchestrator ApiException with its HTTP code
ApiException(code, reason) == [ok |-> FALSE, api |-> TRUE, code |-> code, reason |-> reason]

\* the answers of readNamespacedPodLog for a pod: the log, 400 while the
\* container waits to start, 400 when the pod has several containers and the
\* server cannot tell which is meant, 404, 500, or an error of the transport
FetchAnswers(pod) ==
  {[ok |-> TRUE, api |-> TRUE, code |-> 200, reason |-> "ok"],
   ApiException(404, "NotFound"), ApiException(500, "InternalError"),
   [ok |-> FALSE, api |-> FALSE, code |-> 0, reason |-> "ECONNRESET"]}
  \cup (IF pod.phase = "Pending" THEN {ApiException(400, "ContainerCreating")} ELSE {})
  \cup (IF Len(pod.containers) > 1 THEN {ApiException(400, "ContainerAmbiguous")} ELSE {})

\* the error of a fetch as the caller gets it
FetchError(answer) ==
  ErrResp(IF answer.api THEN answer.code ELSE 500, answer.reason)

Fetched(locals, named, answer) ==
  [K8sCall(locals) EXCEPT !.fetches = Append(@, [named |-> named, answer |-> answer])]

\* lines 725-738: the fetch that names the first container of the pod
getLogs_read(p) ==
  /\ pc[p] = "logs_read"
  /\ \E answer \in FetchAnswers(loc[p].read) :
       IF answer.ok
       THEN Complete(p, OkResp(LogsPage(TailWindow(loc[p].read.log), call[p].cursor,
                                        call[p].limit, clock)),
                     Fetched(loc[p], TRUE, answer))
       ELSE IF ~answer.api \/ answer.code # 400
       THEN Complete(p, FetchError(answer), Fetched(loc[p], TRUE, answer))
       ELSE Advance(p, "logs_retry", Fetched(loc[p], TRUE, answer))
  /\ UNCHANGED <<aside, orchestrator, schemas, clock, uuids, calls, call, lastOk>>

\* lines 739-746: the fetch without a container name, then the page
getLogs_retry(p) ==
  /\ pc[p] = "logs_retry"
  /\ \E answer \in FetchAnswers(loc[p].read) :
       IF answer.ok
       THEN Complete(p, OkResp(LogsPage(TailWindow(loc[p].read.log), call[p].cursor,
                                        call[p].limit, clock)),
                     Fetched(loc[p], FALSE, answer))
       ELSE Complete(p, FetchError(answer), Fetched(loc[p], FALSE, answer))
  /\ UNCHANGED <<aside, orchestrator, schemas, clock, uuids, calls, call, lastOk>>

(***************************************************************************)
(* Specification Spec: two request slots; upsertApp, stopApp and deleteApp *)
(* requests of one owner for one app name interleave at their awaits.      *)
(* The slots are interchangeable; deleteApp requests arrive in the second, *)
(* so that a deleteApp runs beside an upsertApp or a stopApp, never beside *)
(* another deleteApp.                                                      *)
(***************************************************************************)
Owner1 == <<"a", "1">>

Name1 == <<"m">>

\* an app id no upsertApp has returned
UnknownId == <<"f", "f", "-", "4">>

\* the app ids a caller can have learnt, and one that names no app
AppIdInputs ==
  {deployments[n].metadata.annotations.app_id : n \in DOMAIN deployments}
  \cup {UnknownId}

Next ==
  \/ \E p \in Procs :
       upsertApp(p, Owner1, Name1, <<"h">>, ImageFor(Owner1, Name1, <<"1">>))
  \/ \E p \in Procs : upsertApp_find(p)
  \/ \E p \in Procs : upsertApp_ensureSchema(p)
  \/ \E p \in Procs : createOrReplaceDeployment(p)
  \/ \E p \in Procs : createOrReplaceService(p)
  \/ \E p \in Procs : createOrReplaceIngress(p)
  \/ \E p \in Procs, appId \in AppIdInputs \ {UnknownId} : stopApp(p, Owner1, appId)
  \/ \E p \in Procs : stopApp_find(p)
  \/ \E p \in Procs : setAppReplicas_read(p)
  \/ \E p \in Procs : setAppReplicas_replace(p)
  \/ \E p \in Procs : setAppReplicas_find(p)
  \/ \E appId \in AppIdInputs \ {UnknownId} : deleteApp(2, Owner1, appId)
  \/ \E p \in Procs : deleteApp_find(p)
  \/ \E p \in Procs, kind \in {"ingress", "service", "deployment"} :
       deleteAppResources(p, kind)
  \/ \E p \in Procs : deleteApp_dropSchema(p)
  \/ \E p \in Procs : Return(p)

Spec == Init /\ [][Next]_vars

(***************************************************************************)
(* Specification SpecSeq: one request at a time, every operation, callers  *)
(* of several owners, time passing between the steps.                      *)
(***************************************************************************)
NextSeq ==
  \/ \E owner \in Deployers, name \in AppNames, description \in Descriptions :
       \E image \in ImagesFor(owner, name) :
         /\ description = <<>> => image = ImageFor(owner, name, <<"1">>)
         /\ upsertApp(1, owner, name, description, image)
  \/ upsertApp_find(1)
  \/ upsertApp_ensureSchema(1)
  \/ createOrReplaceDeployment(1)
  \/ createOrReplaceService(1)
  \/ createOrReplaceIngress(1)
  \/ \E owner \in Tokens, appId \in AppIdInputs : getApp(1, owner, appId)
  \/ getApp_find(1)
  \/ \E owner \in Tokens, includeAll \in BOOLEAN : listApps(1, owner, includeAll)
  \/ listApps_list(1)
  \/ \E owner \in Tokens, appId \in AppIdInputs : stopApp(1, owner, appId)
  \/ stopApp_find(1)
  \/ \E owner \in Tokens, appId \in AppIdInputs : startApp(1, owner, appId)
  \/ startApp_find(1)
  \/ setAppReplicas_read(1)
  \/ setAppReplicas_replace(1)
  \/ setAppReplicas_find(1)
  \/ \E owner \in Tokens, appId \in AppIdInputs : deleteApp(1, owner, appId)
  \/ deleteApp_find(1)
  \/ \E kind \in {"ingress", "service", "deployment"} : deleteAppResources(1, kind)
  \/ deleteApp_dropSchema(1)
  \/ \E owner \in Tokens, appId \in AppIdInputs : getLogs(1, owner, appId, <<>>, 1)
  \/ getLogs_find(1)
  \/ getLogs_pods(1)
  \/ Return(1)
  \/ Tick

SpecSeq == InitSeq /\ [][NextSeq]_vars

(***************************************************************************)
(* Specification SpecStatus: statusFromDeployment applied to deployment    *)
(* objects as the orchestrator can report them.                            *)
(***************************************************************************)
ConditionSamples ==
  {<<>>,
   <<[type |-> "Progressing", status |-> "True", reason |-> "NewReplicaSetAvailable"]>>,
   <<[type |-> "Progressing", status |-> "False", reason |-> "ProgressDeadlineExceeded"]>>,
   <<[type |-> "Progressing", status |-> "False", reason |-> "ReplicaSetCreateError"]>>,
   <<[type |-> "Available", status |-> "False", reason |-> "MinimumReplicasUnavailable"],
     [type |-> "Progressing", status |-> "False", reason |-> "ProgressDeadlineExceeded"]>>}

ReplicaCounts == {Undefined} \cup (0..MaxReplicas)

Generations == {Undefined} \cup (1..MaxGeneration)

DeploymentSamples ==
  [metadata : [deletionTimestamp : BOOLEAN, generation : Generations],
   spec : [replicas : ReplicaCounts],
   status : [conditions : ConditionSamples, readyReplicas : ReplicaCounts,
             availableReplicas : ReplicaCounts, replicas : ReplicaCounts,
             observedGeneration : Generations]]

InitStatus ==
  /\ Start(0)
  /\ pods = <<>>
  /\ walk = NoWalk
  /\ probe \in {[deployment |-> deployment, status |-> "none"] :
                  deployment \in DeploymentSamples}

\* deploymentToRecord derives the status of the object it was handed
deriveStatus ==
  /\ probe.status = "none"
  /\ probe' = [probe EXCEPT !.status = statusFromDeployment(probe.deployment)]
  /\ UNCHANGED <<orchestrator, schemas, clock, uuids, calls, pc, call, loc, resp,
                 lastOk, pods, walk, deployer, tool>>

NextStatus == deriveStatus

SpecStatus == InitStatus /\ [][NextStatus]_vars

(***************************************************************************)
(* Specification SpecLogs: a client reads the log of one pod page by page, *)
(* following next_cursor, while the pod's tail window does not move.       *)
(***************************************************************************)
WalkApp == [app_id |-> RandomUUID(1)]

\* the i-th line of a log, as the orchestrator returns it with or without a timestamp
LogLine(i, form) ==
  IF form = "timestamped" THEN <<"T1", " ">> \o DecimalString(i) ELSE DecimalString(i)

LogSamples ==
  UNION {{[i \in 1..n |-> LogLine(i, forms[i])] :
            forms \in [1..n -> {"timestamped", "plain"}]} : n \in 0..MaxLines}

PodSamples ==
  {<<[name |-> <<"p">>,
      labels |-> [managedBy |-> CONTROL_PLANE_LABEL_VALUE,
                  appId |-> toLabelValue(WalkApp.app_id)],
      phase |-> phase, startTime |-> 0, containers |-> <<APP_CONTAINER_NAME>>,
      log |-> log]>> : phase \in {"Running", "Pending"}, log \in LogSamples}

InitLogs ==
  /\ Start(0)
  /\ pods \in PodSamples
  /\ walk \in {[NoWalk EXCEPT !.limit = limit, !.finished = FALSE] : limit \in 1..MaxLimit}
  /\ probe = NoProbe

\* one readLogs call with the cursor the previous page returned
followCursor ==
  /\ ~walk.finished
  /\ LET page == readLogs(pods, WalkApp, walk.cursor, walk.limit, clock)
     IN  walk' = [walk EXCEPT !.cursor = page.next_cursor,
                              !.pages = Append(@, page.data),
                              !.finished = page.next_cursor = <<>>]
  /\ UNCHANGED <<orchestrator, schemas, clock, uuids, calls, pc, call, loc, resp,
                 lastOk, pods, probe, deployer, tool>>

NextLogs == followCursor

SpecLogs == InitLogs /\ [][NextLogs]_vars

(***************************************************************************)
(* Properties.                                                             *)
(***************************************************************************)
Range(f) == {f[x] : x \in DOMAIN f}

SameIdentity(d1, d2) ==
  /\ d1.metadata.labels.managedBy = d2.metadata.labels.managedBy
  /\ d1.metadata.labels.owner = d2.metadata.labels.owner
  /\ d1.metadata.labels.name = d2.metadata.labels.name

\* C1: in every reachable state of interleaved upsertApp, stopApp, startApp and
\* deleteApp calls, at most one deployment object carries the identity labels
\* of a given (owner, name).
C1_OneDeploymentPerOwnerAndName ==
  \A n1, n2 \in DOMAIN deployments :
    SameIdentity(deployments[n1], deployments[n2]) => n1 = n2

\* the slot runs an upsertApp that has read the deployment object
ReadDeployment(p) ==
  /\ call[p].op = "upsertApp"
  /\ loc[p].app # NoRecord
  /\ loc[p].depVersion # Undefined

\* the slot has sent its replace of the deployment and has the answer
AttemptedReplace(p) ==
  /\ ReadDeployment(p)
  /\ ~(pc[p] = "replace" /\ loc[p].kind = "deployment")

\* two upsertApp calls that read the same deployment at the same version token
Racing(p, q) ==
  /\ p # q
  /\ AttemptedReplace(p)
  /\ AttemptedReplace(q)
  /\ appResourceNames(loc[p].app).deployment = appResourceNames(loc[q].app).deployment
  /\ loc[p].depVersion = loc[q].depVersion

WonReplace(p) == loc[p].depWritten # Undefined

LostReplace(p) ==
  /\ pc[p] = "done"
  /\ resp[p] = ErrResp(409, "Conflict")
  /\ loc[p].writes = <<>>

RaceDecided(winner, loser) ==
  /\ WonReplace(winner)
  /\ LostReplace(loser)
  /\ LET name == appResourceNames(loc[winner].app).deployment
     IN  /\ name \in DOMAIN deployments
         /\ deployments[name].metadata.resourceVersion = loc[winner].depWritten
         /\ deployments[name].metadata.annotations =
              annotationsForApp(loc[winner].app, "deploying")

\* C2: of two upsertApp calls that read the deployment at the same version
\* token before either replaced it, exactly one replaces it and the other
\* fails with a Conflict having written nothing; the deployment object is at
\* the version the winner's replace gave it, with the winner's record.
C2_ExactlyOneReplaceWins ==
  \A p, q \in Procs :
    Racing(p, q) => RaceDecided(p, q) \/ RaceDecided(q, p)

C2_Witness ==
  \E p, q \in Procs : Racing(p, q) /\ RaceDecided(p, q)

\* the slot holds the answer of a successful upsertApp that followed another
\* successful upsertApp of the same (owner, name), with no delete in between
SecondUpsert(p) ==
  /\ pc[p] = "done"
  /\ call[p].op = "upsertApp"
  /\ resp[p].ok
  /\ loc[p].prev # NoRecord

\* C3: two sequential successful upsertApp calls for the same (owner, name),
\* whatever their descriptions (length 0 included) and images, return the same
\* app_id and the same deployment_id, and the deployment object of the first
\* call still carries those identifiers.
C3_SameIdentifiers ==
  \A p \in Procs :
    SecondUpsert(p) =>
      /\ resp[p].body.app_id = loc[p].prev.app_id
      /\ resp[p].body.deployment_id = loc[p].prev.deployment_id
      /\ loc[p].prev.deployment \in DOMAIN deployments
      /\ LET stored == deployments[loc[p].prev.deployment].metadata.annotations
         IN  /\ stored.app_id = loc[p].prev.app_id
             /\ stored.deployment_id = loc[p].prev.deployment_id

\* the annotations of the deployment object the upsertApp of this slot wrote
StoredBy(p) ==
  deployments[appResourceNames(loc[p].app).deployment].metadata.annotations

\* C4: a second upsertApp with the (owner, name, description, image) of the
\* first leaves app_id, deployment_id, owner, name, description, image, url,
\* created_at and ttl_expiry of the stored record as the first call left them;
\* only updated_at changes.
C4_OnlyUpdatedAtChanges ==
  \A p \in Procs :
    (/\ SecondUpsert(p)
     /\ call[p].description = loc[p].prev.description
     /\ call[p].image = loc[p].prev.image) =>
      LET first == loc[p].prev.annotations
          second == StoredBy(p)
      IN  /\ second.app_id = first.app_id
          /\ second.deployment_id = first.deployment_id
          /\ second.owner = first.owner
          /\ second.name = first.name
          /\ second.description = first.description
          /\ second.image = first.image
          /\ second.url = first.url
          /\ second.created_at = first.created_at
          /\ second.ttl_expiry = first.ttl_expiry

(***************************************************************************)
(* Specification SpecLookup: one owner deploys one app name again and      *)
(* again and reads it back, so that lookups meet what earlier calls left.  *)
(***************************************************************************)
InitLookup ==
  /\ Start(MaxLookupCalls)
  /\ pods = <<>>
  /\ walk = NoWalk
  /\ probe = NoProbe

NextLookup ==
  \/ \E description \in Descriptions :
       upsertApp(1, Owner1, Name1, description, ImageFor(Owner1, Name1, <<"1">>))
  \/ upsertApp_find(1)
  \/ upsertApp_ensureSchema(1)
  \/ createOrReplaceDeployment(1)
  \/ createOrReplaceService(1)
  \/ createOrReplaceIngress(1)
  \/ \E appId \in AppIdInputs : getApp(1, Owner1, appId)
  \/ getApp_find(1)
  \/ Return(1)

SpecLookup == InitLookup /\ [][NextLookup]_vars

(***************************************************************************)
(* Specification SpecFaults: one request at a time for one app name, with  *)
(* an orchestrator whose answer to a read, write or delete can be an error *)
(* that is neither not-found nor a conflict.                               *)
(***************************************************************************)
InitFaults ==
  /\ Start(MaxFaultCalls)
  /\ pods = <<>>
  /\ walk = NoWalk
  /\ probe = NoProbe

Kinds == {"deployment", "service", "ingress"}

NextFaults ==
  \/ \E description \in Descriptions :
       upsertApp(1, Owner1, Name1, description, ImageFor(Owner1, Name1, <<"1">>))
  \/ upsertApp_find(1)
  \/ upsertApp_ensureSchema(1)
  \/ createOrReplaceDeployment(1)
  \/ createOrReplaceService(1)
  \/ createOrReplaceIngress(1)
  \/ \E kind \in Kinds : createOrReplace_error(1, kind)
  \/ \E appId \in AppIdInputs : deleteApp(1, Owner1, appId)
  \/ deleteApp_find(1)
  \/ \E kind \in Kinds : deleteAppResources(1, kind)
  \/ \E kind \in Kinds : deleteAppResources_error(1, kind)
  \/ deleteApp_dropSchema(1)
  \/ Return(1)

SpecFaults == InitFaults /\ [][NextFaults]_vars

\* the slot runs a deleteApp whose three deletes are all answered
DeletesSettled(p) ==
  /\ call[p].op = "deleteApp"
  /\ Cardinality(loc[p].deletes) = Cardinality(Kinds)

\* C11: deleteAppResources succeeds, and deleteApp goes on to drop the schema,
\* whenever each of the three deletes answered success or not-found; it fails
\* with the error whenever one of them answered anything else.
C11_DeleteToleratesNotFound ==
  \A p \in Procs :
    DeletesSettled(p) =>
      LET codes == {d.code : d \in loc[p].deletes}
      IN  /\ {d.kind : d \in loc[p].deletes} = Kinds
          /\ codes \subseteq {200, 404} =>
                \/ pc[p] = "drop_schema" /\ resp[p] = NoResp
                \/ pc[p] = "done" /\ resp[p].ok /\ loc[p].pgCalls = 1
          /\ ~(codes \subseteq {200, 404}) =>
                /\ pc[p] = "done"
                /\ resp[p] = ErrResp(500, "InternalError")
                /\ loc[p].pgCalls = 0

\* a delete of an app whose route and service were already gone succeeded
C11_Witness ==
  \E p \in Procs :
    /\ DeletesSettled(p)
    /\ pc[p] = "done"
    /\ resp[p].ok
    /\ Cardinality({d \in loc[p].deletes : d.code = 404}) = 2

\* the deployment objects carrying the identity labels the lookup of the slot asks for
Candidates(p) ==
  {d \in Range(deployments) :
     /\ d.metadata.labels.managedBy = CONTROL_PLANE_LABEL_VALUE
     /\ IF pc[p] = "upsert_find"
        THEN /\ d.metadata.labels.owner = toLabelValue(normalizeOwner(call[p].owner))
             /\ d.metadata.labels.name = toLabelValue(call[p].name)
        ELSE d.metadata.labels.appId = toLabelValue(call[p].appId)}

\* C5: a lookup by (owner, name) or by app id returns null when no object
\* carries the identity labels, the decoded record when exactly one does, and
\* fails, returning none of the candidates, when more than one does.
C5_LookupOutcomes ==
  [][\A p \in Procs :
       (pc[p] \in {"upsert_find", "find_id"} /\ pc'[p] # pc[p]) =>
         LET candidates == Candidates(p)
             failed == pc'[p] = "done" /\ resp'[p] = ErrResp(500, "multiple_deployments")
         IN  /\ candidates = {} => ~failed /\ loc'[p].existing = NoRecord
             /\ Cardinality(candidates) = 1 =>
                  /\ ~failed
                  /\ loc'[p].existing =
                       deploymentToRecord(CHOOSE d \in candidates : TRUE, clock)
             /\ Cardinality(candidates) > 1 => failed]_vars

\* C6: statusFromDeployment gives 'deleting' to every deployment with a
\* deletion marker, and 'stopped' to every deployment without one whose desired
\* replica count is 0, whatever the conditions and the ready and available counts.
C6_DeletingThenStoppedFirst ==
  probe.status # "none" =>
    /\ probe.deployment.metadata.deletionTimestamp => probe.status = "deleting"
    /\ (/\ ~probe.deployment.metadata.deletionTimestamp
        /\ probe.deployment.spec.replicas = 0) => probe.status = "stopped"

C6_Witness ==
  /\ probe.status = "stopped"
  /\ probe.deployment.status.readyReplicas > 0
  /\ \E i \in DOMAIN probe.deployment.status.conditions :
       /\ probe.deployment.status.conditions[i].type = "Progressing"
       /\ probe.deployment.status.conditions[i].status = "False"
       /\ probe.deployment.status.conditions[i].reason = "ProgressDeadlineExceeded"

ByIdOps == {"getApp", "stopApp", "startApp", "deleteApp", "getLogs"}

\* the app of this id does not exist, or exists under another owner
NotTheCallersApp(p) ==
  \A d \in Range(deployments) :
    d.metadata.annotations.app_id = call[p].appId =>
      d.metadata.annotations.owner # call[p].owner

\* C7: getApp, stopApp, startApp, deleteApp and getLogs answer 404 not_found,
\* and write nothing, both when no app has the app id and when the app of that
\* id belongs to another owner, admin callers included: the two cases get the
\* same response.
C7_OtherOwnerIsNotFound ==
  [][\A p \in Procs :
       (/\ pc[p] = "find_id"
        /\ pc'[p] # pc[p]
        /\ call[p].op \in ByIdOps
        /\ NotTheCallersApp(p)) =>
         /\ pc'[p] = "done"
         /\ resp'[p] = ErrResp(404, "not_found")
         /\ UNCHANGED <<orchestrator, schemas>>]_vars

C7_Witness ==
  \E p \in Procs :
    /\ pc[p] = "done"
    /\ call[p].op \in ByIdOps
    /\ call[p].isAdmin
    /\ loc[p].existing # NoRecord
    /\ loc[p].existing.owner # call[p].owner
    /\ resp[p] = ErrResp(404, "not_found")

\* the apps the orchestrator holds: the deployment objects that decode to a record
StoredApps == {d \in Range(deployments) : deploymentToRecord(d, clock) # NoRecord}

C9_NamespaceCheckedFirst ==
  [][\A p \in Procs :
       (/\ pc[p] = "idle"
        /\ call'[p].op = "upsertApp"
        /\ ~StartsWith(call'[p].image,
                       RegistryHost \o <<"/">> \o call'[p].owner \o <<"/">>
                         \o call'[p].name \o <<":">>)) =>
         /\ pc'[p] = "done"
         /\ resp'[p] = ErrResp(400, "invalid_image_namespace")
         /\ loc'[p].k8sCalls = 0
         /\ loc'[p].pgCalls = 0
         /\ UNCHANGED <<orchestrator, schemas>>]_vars

C9_Witness ==
  \E p \in Procs :
    /\ pc[p] = "done"
    /\ call[p].op = "upsertApp"
    /\ resp[p] = ErrResp(400, "invalid_image_namespace")
    /\ loc[p].k8sCalls = 0
    /\ deployments # EmptyStore

RECURSIVE Flatten(_)
Flatten(pages) ==
  IF pages = <<>> THEN <<>> ELSE Head(pages) \o Flatten(Tail(pages))

\* what the i-th line of the walked log reads as
ExpectedEntry(i) ==
  LET line == pods[1].log[i]
  IN  [timestamp |-> IF line[1] = "T1" THEN <<"T1">> ELSE DecimalString(clock),
       stream |-> "stdout",
       message |-> DecimalString(i)]

\* C10: reading a pod's n log lines with limit L from no cursor and following
\* next_cursor returns the lines in order, each once, in pages of at most L;
\* next_cursor is non-null exactly when lines remain, so the walk ends after
\* ceil(n / L) calls, one call when n = 0.
C10_CursorWalk ==
  pods # <<>> =>
    LET n == Len(pods[1].log)
        L == walk.limit
        read == Flatten(walk.pages)
    IN  /\ \A k \in DOMAIN walk.pages : Len(walk.pages[k]) <= L
        /\ Len(read) <= n
        /\ read = [i \in 1..Len(read) |-> ExpectedEntry(i)]
        /\ walk.pages # <<>> => ((walk.cursor # <<>>) <=> (Len(read) < n))
        /\ walk.finished <=> (walk.pages # <<>> /\ Len(read) = n)
        /\ walk.finished =>
             Len(walk.pages) = IF n = 0 THEN 1 ELSE (n + L - 1) \div L

C10_Witness ==
  /\ pods # <<>>
  /\ walk.finished
  /\ walk.limit = 2
  /\ Len(walk.pages) = 3
  /\ Len(Flatten(walk.pages)) = 5

(***************************************************************************)
(* Specification SpecCodec: a record as upsertApp builds it is written on  *)
(* a deployment object and decoded from it.                                *)
(***************************************************************************)
\* the records upsertApp builds for the callers the auth middleware admits
BuiltRecords ==
  {buildAppRecord([NoCall EXCEPT !.op = "upsertApp", !.owner = owner,
                                 !.name = name, !.description = description,
                                 !.image = ImageFor(owner, name, tag)],
                  NoRecord, now, drawn) :
     owner \in Tokens, name \in AppNames, description \in Descriptions,
     tag \in ImageTags, now \in 0..MaxClock, drawn \in 0..MaxDrawn}

InitCodec ==
  /\ Start(0)
  /\ pods = <<>>
  /\ walk = NoWalk
  /\ probe \in {[record |-> r, deployment |-> NoRecord, decoded |-> NoRecord,
                 status |-> "none"] : r \in BuiltRecords}

\* createNamespacedDeployment of the body built for the record, then deploymentToRecord
writeAndDecode ==
  /\ probe.status = "none"
  /\ LET r == probe.record
         stored == ServerCreate(deploymentBody(r, databaseUrlForApp(r.app_id), 1),
                                1, r.updated_at)
     IN  probe' = [probe EXCEPT !.deployment = stored,
                                !.decoded = deploymentToRecord(stored, r.updated_at),
                                !.status = "decoded"]
  /\ UNCHANGED <<orchestrator, schemas, clock, uuids, calls, pc, call, loc, resp,
                 lastOk, pods, walk, deployer, tool>>

NextCodec == writeAndDecode

SpecCodec == InitCodec /\ [][NextCodec]_vars

\* C12: decoding the deployment object written for a record that upsertApp
\* built yields a record, not null, with the app_id, deployment_id, owner,
\* name, description, url, image, created_at, updated_at and ttl_expiry of
\* the record written.
C12_CodecRoundTrip ==
  probe.status = "decoded" =>
    /\ probe.decoded # NoRecord
    /\ probe.decoded.app_id = probe.record.app_id
    /\ probe.decoded.deployment_id = probe.record.deployment_id
    /\ probe.decoded.owner = probe.record.owner
    /\ probe.decoded.name = probe.record.name
    /\ probe.decoded.description = probe.record.description
    /\ probe.decoded.url = probe.record.url
    /\ probe.decoded.image = probe.record.image
    /\ probe.decoded.created_at = probe.record.created_at
    /\ probe.decoded.updated_at = probe.record.updated_at
    /\ probe.decoded.ttl_expiry = probe.record.ttl_expiry

(***************************************************************************)
(* Specification SpecNaming: appResourceNames applied to names and app ids *)
(* of every shape: empty, all punctuation, mixed case, longer than the     *)
(* fragment lengths.                                                       *)
(***************************************************************************)
Repeat(c, n) == [i \in 1..n |-> c]

NameTails ==
  UNION {[1..n -> {"b", "Z", "-", "!"}] : n \in 0..2}

NameSamples ==
  {Repeat(c, n) \o tail : c \in {"a", "-"}, n \in 0..MaxPad, tail \in NameTails}

AppIdSamples ==
  {<<>>, <<"-", "-">>, RandomUUID(1), Repeat("F", IdFragmentLength + 2)}

InitNaming ==
  /\ Start(0)
  /\ pods = <<>>
  /\ walk = NoWalk
  /\ probe \in {[app |-> [name |-> name, app_id |-> appId], names |-> NoRecord,
                 status |-> "none"] : name \in NameSamples, appId \in AppIdSamples}

deriveNames ==
  /\ probe.status = "none"
  /\ probe' = [probe EXCEPT !.names = appResourceNames(probe.app), !.status = "named"]
  /\ UNCHANGED <<orchestrator, schemas, clock, uuids, calls, pc, call, loc, resp,
                 lastOk, pods, walk, deployer, tool>>

NextNaming == deriveNames

SpecNaming == InitNaming /\ [][NextNaming]_vars

\* a name the orchestrator accepts for an object of any of the three kinds
ValidObjectName(name) ==
  /\ name # <<>>
  /\ Len(name) <= 63
  /\ \A i \in DOMAIN name : name[i] \in LowerChars \cup DigitChars \cup {"-"}
  /\ name[1] # "-"
  /\ name[Len(name)] # "-"

\* C13: for every name and every app id, each of the three names of
\* appResourceNames is non-empty, made of lower-case letters, digits and
\* hyphens only, neither starts nor ends with a hyphen, and has at most 63
\* characters.
C13_ObjectNamesValid ==
  probe.status = "named" =>
    /\ ValidObjectName(probe.names.deployment)
    /\ ValidObjectName(probe.names.service)
    /\ ValidObjectName(probe.names.ingress)

\* a name cut at its 32nd character, which is a hyphen, with an app id of no usable character
C13_Witness ==
  /\ probe.status = "named"
  /\ Len(probe.app.name) = NameFragmentMaxLength + 1
  /\ probe.app.name[NameFragmentMaxLength] = "-"
  /\ probe.app.name[1] = "a"
  /\ probe.app.app_id = <<"-", "-">>
  /\ Len(probe.names.deployment) = 44

WriteOrder == <<"deployment", "service", "ingress">>

\* the step writes the object of the kind at this position of the order, as
\* the next write of the upsertApp running in the slot
WritesInTurn(p, position) ==
  LET kind == WriteOrder[position]
      name == BodyFor(kind, loc[p].app).metadata.name
  IN  /\ Len(loc[p].writes) = position - 1
      /\ loc'[p].writes = Append(loc[p].writes, kind)
      /\ name \in DOMAIN StoreOf(kind)'
      /\ StoreOf(kind)'[name].spec = BodyFor(kind, loc[p].app).spec

\* the upsertApp running in the slot throws in this step
UpsertFails(p) ==
  /\ call[p].op = "upsertApp"
  /\ pc[p] \notin {"idle", "done"}
  /\ pc'[p] = "done"
  /\ ~resp'[p].ok

\* C14: upsertAppResources writes the deployment, then the service, then the
\* route; the step in which a write fails changes no object, and the call
\* writes nothing afterwards, so that later objects are not written and
\* earlier ones are neither reverted nor deleted.
C14_WriteOrder ==
  [][\A p \in Procs :
       call[p].op = "upsertApp" =>
         /\ deployments' # deployments => WritesInTurn(p, 1)
         /\ services' # services => WritesInTurn(p, 2)
         /\ ingresses' # ingresses => WritesInTurn(p, 3)
         /\ UpsertFails(p) =>
              /\ UNCHANGED orchestrator
              /\ loc'[p].writes = loc[p].writes
         /\ pc[p] = "done" => UNCHANGED orchestrator]_vars

\* an upsertApp whose service write failed: the deployment it wrote is stored,
\* no service and no route
C14_Witness ==
  \E p \in Procs :
    /\ call[p].op = "upsertApp"
    /\ pc[p] = "done"
    /\ resp[p] = ErrResp(500, "InternalError")
    /\ loc[p].writes = <<"deployment">>
    /\ appResourceNames(loc[p].app).deployment \in DOMAIN deployments
    /\ services = EmptyStore
    /\ ingresses = EmptyStore

\* the deployments stored for the (owner, name) of the call in the slot
DeploymentsOfCall(p) ==
  {d \in Range(deployments) :
     MatchesSelector(d, NameSelector(call[p].owner, call[p].name))}

\* a successful upsertApp, the first of its (owner, name), whose lookup ran
\* over the one deployment an earlier, failed upsertApp had written
RepairUpsert(p) ==
  /\ pc[p] = "done"
  /\ call[p].op = "upsertApp"
  /\ resp[p].ok
  /\ loc[p].prev = NoRecord
  /\ loc[p].matched = 1

\* C15: an upsertApp that runs without errors after an upsertApp of the same
\* (owner, name) failed having written the deployment, or the deployment and
\* the service, ends with the three managed objects present, all carrying the
\* app_id the failed call wrote on the deployment.
C15_RepairKeepsAppId ==
  \A p \in Procs :
    RepairUpsert(p) =>
      LET names == appResourceNames(loc[p].app)
          appId == loc[p].app.app_id
      IN  /\ \A d \in DeploymentsOfCall(p) : d.metadata.annotations.app_id = appId
          /\ names.deployment \in DOMAIN deployments
          /\ names.service \in DOMAIN services
          /\ names.ingress \in DOMAIN ingresses
          /\ deployments[names.deployment].metadata.annotations.app_id = appId
          /\ services[names.service].metadata.annotations.app_id = appId
          /\ ingresses[names.ingress].metadata.annotations.app_id = appId

\* the slot is about to issue a replace whose version token is no longer
\* the version of the stored object
StaleReplace(p) ==
  LET name == IF pc[p] = "replace"
              THEN BodyFor(loc[p].kind, loc[p].app).metadata.name
              ELSE loc[p].read.metadata.name
      store == IF pc[p] = "replace" THEN StoreOf(loc[p].kind) ELSE deployments
  IN  /\ pc[p] \in {"replace", "replicas_replace"}
      /\ name \in DOMAIN store
      /\ store[name].metadata.resourceVersion # loc[p].read.metadata.resourceVersion

\* C16: a replace of createOrReplaceDeployment, createOrReplaceService,
\* createOrReplaceIngress or setAppReplicas that the orchestrator rejects with
\* a Conflict ends the operation with that error: the step writes nothing, and
\* the operation issues no call afterwards, neither a retry nor a create.
C16_ConflictReachesCaller ==
  [][\A p \in Procs :
       /\ (StaleReplace(p) /\ loc'[p] # loc[p]) =>
            /\ pc'[p] = "done"
            /\ resp'[p] = ErrResp(409, "Conflict")
            /\ loc'[p].writes = loc[p].writes
            /\ UNCHANGED orchestrator
       /\ (pc[p] = "done" /\ resp[p] = ErrResp(409, "Conflict")) =>
            \/ pc'[p] = "idle"
            \/ UNCHANGED <<pc[p], loc[p], resp[p]>>]_vars

\* an upsertApp whose replace of the service lost against a concurrent writer
C16_Witness ==
  \E p \in Procs :
    /\ pc[p] = "done"
    /\ call[p].op = "upsertApp"
    /\ resp[p] = ErrResp(409, "Conflict")
    /\ loc[p].kind = "service"
    /\ loc[p].writes = <<"deployment">>

\* the deployment stored under the name is the one the slot has read
StillAsRead(p, name) ==
  /\ name \in DOMAIN deployments
  /\ deployments[name].metadata.resourceVersion = loc[p].depVersion

\* the replace changed the replica count, updated_at and status of the
\* deployment and nothing else the control plane wrote
OnlyReplicasChanged(old, new, replicas) ==
  /\ new.metadata.name = old.metadata.name
  /\ new.metadata.labels = old.metadata.labels
  /\ DOMAIN new.metadata.annotations = DOMAIN old.metadata.annotations
  /\ \A key \in DOMAIN old.metadata.annotations \ {"updated_at", "status"} :
       new.metadata.annotations[key] = old.metadata.annotations[key]
  /\ DOMAIN new.spec = DOMAIN old.spec
  /\ \A field \in DOMAIN old.spec \ {"replicas"} : new.spec[field] = old.spec[field]
  /\ new.spec.replicas = replicas

\* C17: the replace of setAppReplicas leaves the service and the route as they
\* are and changes no other deployment; when the deployment is still the one
\* read, it is stored with every annotation other than updated-at and status
\* and its container spec unchanged; when it was modified since the read, the
\* call fails with a Conflict and the deployment is not overwritten.
C17_ReplicasFrame ==
  [][\A p \in Procs :
       (pc[p] = "replicas_replace" /\ loc'[p] # loc[p]) =>
         LET name == appResourceNames(loc[p].app).deployment
         IN  /\ UNCHANGED <<services, ingresses>>
             /\ DOMAIN deployments' = DOMAIN deployments
             /\ \A other \in DOMAIN deployments \ {name} :
                  deployments'[other] = deployments[other]
             /\ IF StillAsRead(p, name)
                THEN /\ pc'[p] = "replicas_find"
                     /\ OnlyReplicasChanged(deployments[name], deployments'[name],
                                            ReplicasFor(call[p].op))
                ELSE /\ UNCHANGED deployments
                     /\ pc'[p] = "done"
                     /\ resp'[p] = IF name \in DOMAIN deployments
                                   THEN ErrResp(409, "Conflict")
                                   ELSE ErrResp(404, "NotFound")]_vars

\* a stopApp whose deployment was redeployed between the read and the
\* replace of setAppReplicas, and which failed with the Conflict
C17_Witness ==
  \E p \in Procs :
    /\ pc[p] = "done"
    /\ call[p].op = "stopApp"
    /\ resp[p] = ErrResp(409, "Conflict")
    /\ loc[p].writes = <<>>
    /\ LET name == appResourceNames(loc[p].app).deployment
       IN  /\ name \in DOMAIN deployments
           /\ appResourceNames(loc[p].app).service \in DOMAIN services
           /\ deployments[name].metadata.resourceVersion > loc[p].depVersion
           /\ deployments[name].spec.replicas = 1

\* the slot holds the answer of a successful stopApp or startApp
ReplicasSet(p, op) ==
  /\ pc[p] = "done"
  /\ call[p].op = op
  /\ resp[p].ok

\* C18: a successful stopApp leaves the deployment with 0 desired replicas
\* and returns status 'stopped'; a successful startApp leaves it with 1
\* desired replica and returns status 'deploying'.
C18_StopStartStatus ==
  \A p \in Procs :
    LET name == appResourceNames(loc[p].app).deployment
    IN  /\ ReplicasSet(p, "stopApp") =>
             /\ deployments[name].spec.replicas = 0
             /\ resp[p].body.status = "stopped"
        /\ ReplicasSet(p, "startApp") =>
             /\ deployments[name].spec.replicas = 1
             /\ resp[p].body.status = "deploying"

(***************************************************************************)
(* Specification SpecObserved: the lookups applied to the deployment of    *)
(* one app in every observed state, under every value a write can have     *)
(* left in its status annotation.                                          *)
(***************************************************************************)
ObservedApp ==
  buildAppRecord([NoCall EXCEPT !.op = "upsertApp", !.owner = Owner1, !.name = Name1,
                                !.description = <<"h">>,
                                !.image = ImageFor(Owner1, Name1, <<"1">>)],
                 NoRecord, 0, 0)

\* the deployment written for the app, as the orchestrator reports it
ObservedDeployment(sample) ==
  LET stored == ServerCreate(deploymentBody(ObservedApp,
                                            databaseUrlForApp(ObservedApp.app_id), 1), 1, 0)
  IN  [stored EXCEPT !.metadata.deletionTimestamp = sample.metadata.deletionTimestamp,
                     !.metadata.generation = sample.metadata.generation,
                     !.spec.replicas = sample.spec.replicas,
                     !.status = sample.status]

InitObserved ==
  /\ Start(0)
  /\ pods = <<>>
  /\ walk = NoWalk
  /\ probe \in {[deployment |-> ObservedDeployment(sample), decoded |-> {},
                 status |-> "none"] : sample \in DeploymentSamples}

\* the status of the records findAppById and findAppByOwnerAndName return for
\* the deployment, for each value of its status annotation
lookupStatuses ==
  /\ probe.status = "none"
  /\ LET StoreWith(annotation) ==
           [n \in {probe.deployment.metadata.name} |->
              [probe.deployment EXCEPT !.metadata.annotations.status = annotation]]
     IN  probe' =
           [probe EXCEPT
              !.decoded =
                 {findAppById(StoreWith(annotation), ObservedApp.app_id, clock).value.status :
                    annotation \in Statuses}
                 \cup {findAppByOwnerAndName(StoreWith(annotation), Owner1, Name1,
                                             clock).value.status :
                         annotation \in Statuses},
              !.status = "decoded"]
  /\ UNCHANGED <<orchestrator, schemas, clock, uuids, calls, pc, call, loc, resp,
                 lastOk, pods, walk, deployer, tool>>

NextObserved == lookupStatuses

SpecObserved == InitObserved /\ [][NextObserved]_vars

\* C19: deployments that differ only in the value of the status annotation
\* decode to the same status, the one statusFromDeployment derives from the
\* deletion marker, the desired replicas, the conditions, the replica counts
\* and the generation pair.
C19_StatusFromObservedState ==
  probe.status = "decoded" =>
    /\ Cardinality(probe.decoded) = 1
    /\ probe.decoded = {statusFromDeployment(probe.deployment)}

\* a deployment written with status 'deploying' and reported ready decodes
\* to 'healthy' whatever its annotation says
C19_Witness ==
  /\ probe.status = "decoded"
  /\ probe.deployment.metadata.annotations.status = "deploying"
  /\ probe.deployment.status.readyReplicas = 1
  /\ probe.decoded = {"healthy"}

(***************************************************************************)
(* Specification SpecTtl: the configuration loader reads                   *)
(* DEFAULT_APP_TTL_HOURS from the environment, then upsertApp builds the   *)
(* record of an app.                                                       *)
(***************************************************************************)
\* Number(value) for an unset variable and for texts of signs, digits and
\* letters: the empty text is 0, a text that is no numeral is NaN
Number(value) ==
  IF ~value.set THEN [finite |-> FALSE, value |-> 0]
  ELSE IF value.text = <<>> THEN [finite |-> TRUE, value |-> 0]
  ELSE IF IsDigits(value.text) THEN [finite |-> TRUE, value |-> DecimalValue(value.text)]
  ELSE IF value.text[1] = "-" /\ IsDigits(Tail(value.text))
       THEN [finite |-> TRUE, value |-> 0 - DecimalValue(Tail(value.text))]
  ELSE [finite |-> FALSE, value |-> 0]

\* env.ts lines 5-8: Number.isFinite(parsed) ? parsed : fallback
readNumber(value, fallback) ==
  LET parsed == Number(value)
  IN  IF parsed.finite THEN parsed.value ELSE fallback

EnvSamples ==
  {[set |-> FALSE, text |-> <<>>]}
  \cup {[set |-> TRUE, text |-> text] :
          text \in UNION {[1..n -> {"-", "0", "1", "h"}] : n \in 0..MaxEnvLen}}

InitTtl ==
  /\ Start(0)
  /\ pods = <<>>
  /\ walk = NoWalk
  /\ probe \in {[env |-> env, now |-> now, config |-> NoRecord, record |-> NoRecord,
                 status |-> "none"] : env \in EnvSamples, now \in 0..MaxClock}

\* the module is loaded, then an upsertApp call builds its record at time now
loadAndBuild ==
  /\ probe.status = "none"
  /\ LET config == [defaultAppTtlHours |-> readNumber(probe.env, DefaultAppTtlHours)]
         c == [NoCall EXCEPT !.op = "upsertApp", !.owner = Owner1, !.name = Name1,
                             !.description = <<"h">>,
                             !.image = ImageFor(Owner1, Name1, <<"1">>)]
     IN  probe' = [probe EXCEPT
                     !.config = config,
                     !.record = [buildAppRecord(c, NoRecord, probe.now, 0) EXCEPT
                                   !.ttl_expiry = computeTtlExpiryUnder(config, probe.now)],
                     !.status = "built"]
  /\ UNCHANGED <<orchestrator, schemas, clock, uuids, calls, pc, call, loc, resp,
                 lastOk, pods, walk, deployer, tool>>

NextTtl == loadAndBuild

SpecTtl == InitTtl /\ [][NextTtl]_vars

\* C20: whatever value of DEFAULT_APP_TTL_HOURS the loader accepts, the
\* ttl_expiry of the record upsertApp writes is strictly later than the time
\* at which the call runs.
C20_TtlExpiryInTheFuture ==
  probe.status = "built" => probe.record.ttl_expiry > probe.now

(***************************************************************************)
(* Specification SpecBootstrap: the constructor of KubernetesDeployer      *)
(* failed; requests of every kind arrive, one at a time.                   *)
(***************************************************************************)
\* the messages of the errors resolveKubeConfig and loadFromCluster throw
InitErrors == {<<"no credentials">>, <<"bad kubeconfig">>}

InitBootstrap ==
  /\ deployments = EmptyStore
  /\ services = EmptyStore
  /\ ingresses = EmptyStore
  /\ resourceVersion = 0
  /\ schemas = {}
  /\ clock = 0
  /\ uuids = 0
  /\ calls = MaxBootCalls
  /\ pc = [p \in Procs |-> "idle"]
  /\ call = [p \in Procs |-> NoCall]
  /\ loc = [p \in Procs |-> NoLoc]
  /\ resp = [p \in Procs |-> NoResp]
  /\ lastOk = EmptyStore
  /\ pods = <<>>
  /\ walk = NoWalk
  /\ probe = NoProbe
  /\ deployer \in {[enabled |-> FALSE, initError |-> reason] : reason \in InitErrors}
  /\ tool = NoTool

NextBootstrap ==
  \/ \E owner \in Deployers : \E image \in ImagesFor(owner, Name1) :
       upsertApp(1, owner, Name1, <<"h">>, image)
  \/ upsertApp_find(1)
  \/ \E owner \in Tokens : getApp(1, owner, UnknownId)
  \/ getApp_find(1)
  \/ \E owner \in Tokens, includeAll \in BOOLEAN : listApps(1, owner, includeAll)
  \/ listApps_list(1)
  \/ \E owner \in Tokens : stopApp(1, owner, UnknownId)
  \/ stopApp_find(1)
  \/ \E owner \in Tokens : startApp(1, owner, UnknownId)
  \/ startApp_find(1)
  \/ \E owner \in Tokens : deleteApp(1, owner, UnknownId)
  \/ deleteApp_find(1)
  \/ \E owner \in Tokens : getLogs(1, owner, UnknownId, <<>>, 1)
  \/ getLogs_find(1)
  \/ Return(1)

SpecBootstrap == InitBootstrap /\ [][NextBootstrap]_vars

\* no orchestrator call was issued and the schema provisioner was not called
NothingCalled(p) ==
  /\ loc[p].k8sCalls = 0
  /\ loc[p].pgCalls = 0
  /\ loc[p].writes = <<>>
  /\ deployments = EmptyStore
  /\ services = EmptyStore
  /\ ingresses = EmptyStore
  /\ schemas = {}

\* the request is rejected by the check the service makes on its input
\* before it turns to the deployer
RejectedOnInput(p) ==
  \/ /\ call[p].op = "upsertApp"
     /\ ~imageInNamespace(call[p].owner, call[p].name, call[p].image)
  \/ /\ call[p].op = "listApps"
     /\ call[p].includeAll
     /\ ~call[p].isAdmin

\* C21 as stated: when the constructor failed, every call fails with the
\* error carrying the bootstrap failure reason, without an orchestrator call
\* and without a call of ensureSchema or dropSchema.
C21_EveryCallNotAvailable ==
  \A p \in Procs :
    (~deployer.enabled /\ pc[p] = "done") =>
      /\ resp[p] = NotAvailable
      /\ NothingCalled(p)

\* C21: when the constructor failed, every call fails without an orchestrator
\* call and without a call of ensureSchema or dropSchema; the error carries
\* the bootstrap failure reason unless the service rejects the request on its
\* input first (image outside the caller's namespace: 400; includeAll from a
\* caller who is no admin: 403).
C21_NotAvailableUnlessRejected ==
  \A p \in Procs :
    ~deployer.enabled =>
      /\ pc[p] \in {"idle", "upsert_find", "find_id", "list", "done"}
      /\ NothingCalled(p)
      /\ pc[p] = "done" =>
           /\ ~resp[p].ok
           /\ RejectedOnInput(p) => resp[p].status \in {400, 403}
           /\ ~RejectedOnInput(p) => resp[p] = NotAvailable

\* a second upsertApp after a failed first one: it fails with the same reason
C21_Witness ==
  /\ ~deployer.enabled
  /\ calls = MaxBootCalls - 2
  /\ pc[1] = "done"
  /\ call[1].op = "upsertApp"
  /\ resp[1] = NotAvailable
  /\ resp[1].body.reason = <<"no credentials">>

(***************************************************************************)
(* The deploy tool (Go): Service.DeployApp runs its steps one after the    *)
(* other; each step that leaves the process can fail.                      *)
(***************************************************************************)
serviceVars ==
  <<orchestrator, schemas, clock, uuids, calls, pc, call, loc, resp, lastOk,
    pods, walk, probe, deployer>>

\* strings.TrimSpace
TrimSpace(value) == StripTrailing(StripLeading(value, {" "}), {" "})

\* firstNonEmpty of two values
firstNonEmpty(first, second) ==
  IF TrimSpace(first) # <<>> THEN TrimSpace(first) ELSE TrimSpace(second)

\* strings.EqualFold(trimmed, "1") || strings.EqualFold(trimmed, "true")
envEnabled(value) ==
  ToLowerCase(TrimSpace(value)) \in {<<"1">>, <<"t", "r", "u", "e">>}

maxNameLength == 63

maxDescriptionLength == 300

\* contracts.DeployAppInput.Validate: validateName, then validateDescription
ValidateInput(in) ==
  /\ in.name # <<>>
  /\ Len(in.name) <= maxNameLength
  /\ \A i \in DOMAIN in.name : in.name[i] \in AlnumChars \cup {"-"}
  /\ in.name[1] # "-"
  /\ in.name[Len(in.name)] # "-"
  /\ TrimSpace(in.description) # <<>>
  /\ Len(TrimSpace(in.description)) <= maxDescriptionLength

\* the registry host of defaultDockerRegistry after normalizeRegistryForImage
DefaultRegistry == <<"r", ".", "n">>

\* resolveImageRepository for a repository without a scheme
resolveImageRepository(prepareRepository, registry) ==
  LET repository == TrimSpace(prepareRepository)
      slashes == {i \in DOMAIN repository : repository[i] = "/"}
      slash == IF slashes = {} THEN 0 ELSE MinOf(slashes)
      firstSegment == IF slash = 0 THEN repository ELSE SubSeq(repository, 1, slash - 1)
      hasHost == \E i \in DOMAIN firstSegment : firstSegment[i] \in {".", ":"}
  IN  IF repository = <<>> THEN repository
      ELSE IF hasHost /\ slash > 0
      THEN registry \o <<"/">> \o SubSeq(repository, slash + 1, Len(repository))
      ELSE registry \o <<"/">> \o repository

\* buildImageName: an empty repository or tag is an error of the prepare step
buildImageName(repository, requiredTag) ==
  IF TrimSpace(repository) = <<>> \/ TrimSpace(requiredTag) = <<>>
  THEN [ok |-> FALSE, image |-> <<>>]
  ELSE [ok |-> TRUE, image |-> TrimSpace(repository) \o <<":">> \o TrimSpace(requiredTag)]

PrepareRepositories == {<<>>, <<"r", ".", "i", "/", "a", "/", "m">>, <<"a", "/", "m">>}

PrepareTags == {<<>>, <<"c">>}

\* a step succeeded and the next one is due
ToolGoes(label, issued) ==
  tool' = [tool EXCEPT !.pc = label, !.steps = @ \o issued]

\* return zero, err: the last step issued failed; the deferred removeAll runs
\* when the workdir was made
ToolFails(issued) ==
  tool' = [tool EXCEPT !.pc = "done", !.steps = @ \o issued,
                       !.failed = @ \cup {issued[Len(issued)]},
                       !.err = issued[Len(issued)],
                       !.workDir = IF @ = "made" THEN "removed" ELSE @]

ToolReturns(issued, output) ==
  tool' = [tool EXCEPT !.pc = "done", !.steps = @ \o issued, !.out = output,
                       !.workDir = "removed"]

\* lines 90-104: Validate, resolveControlPlaneURL
DeployApp(in) ==
  /\ tool.pc = "idle"
  /\ LET started == [tool EXCEPT !.input = in]
         url == firstNonEmpty(in.url, tool.env.controlPlaneURL)
     IN  IF ~ValidateInput(in)
         THEN tool' = [started EXCEPT !.pc = "done", !.steps = <<"Validate">>,
                                      !.failed = {"Validate"}, !.err = "Validate"]
         ELSE IF url = <<>>
         THEN tool' = [started EXCEPT !.pc = "done",
                                      !.steps = <<"Validate", "resolveControlPlaneURL">>,
                                      !.failed = {"resolveControlPlaneURL"},
                                      !.err = "resolveControlPlaneURL"]
         ELSE tool' = [started EXCEPT !.pc = "connect",
                                      !.steps = <<"Validate", "resolveControlPlaneURL">>]
  /\ UNCHANGED serviceVars

\* lines 106-114: newControlPlane, resolveGitCommit
DeployApp_connect ==
  /\ tool.pc = "connect"
  /\ \/ ToolFails(<<"newControlPlane">>)
     \/ ToolFails(<<"newControlPlane", "resolveGitCommit">>)
     \/ ToolGoes("prepare", <<"newControlPlane", "resolveGitCommit">>)
  /\ UNCHANGED serviceVars

\* lines 116-131: PrepareApp, then the image name from its answer
DeployApp_prepare ==
  /\ tool.pc = "prepare"
  /\ \/ ToolFails(<<"PrepareApp">>)
     \/ \E repository \in PrepareRepositories, requiredTag \in PrepareTags :
          LET built == buildImageName(
                         resolveImageRepository(repository, DefaultRegistry), requiredTag)
          IN  IF built.ok
              THEN tool' = [tool EXCEPT !.pc = "workdir", !.image = built.image,
                                        !.steps = @ \o <<"PrepareApp", "buildImageName">>]
              ELSE ToolFails(<<"PrepareApp", "buildImageName">>)
  /\ UNCHANGED serviceVars

\* lines 136-158: makeTempDir, cloneFromPrepare, writeEnv
DeployApp_workdir ==
  /\ tool.pc = "workdir"
  /\ \/ ToolFails(<<"makeTempDir">>)
     \/ \E issued \in {<<"makeTempDir", "cloneFromPrepare">>,
                       <<"makeTempDir", "cloneFromPrepare", "writeEnv">>} :
          tool' = [tool EXCEPT !.pc = "done", !.steps = @ \o issued,
                               !.failed = @ \cup {issued[Len(issued)]},
                               !.err = issued[Len(issued)], !.workDir = "removed"]
     \/ tool' = [tool EXCEPT !.pc = "build", !.workDir = "made",
                             !.steps = @ \o <<"makeTempDir", "cloneFromPrepare", "writeEnv">>]
  /\ UNCHANGED serviceVars

\* a build whose error is dropped: the push follows in any case
DeployApp_build_unchecked ==
  /\ tool.pc = "build"
  /\ \/ tool' = [tool EXCEPT !.pc = "push", !.steps = @ \o <<"Build">>,
                             !.failed = @ \cup {"Build"}]
     \/ ToolGoes("push", <<"Build">>)
  /\ UNCHANGED serviceVars

\* lines 160-163: docker build
DeployApp_build ==
  /\ tool.pc = "build"
  /\ \/ ToolFails(<<"Build">>)
     \/ ToolGoes("push", <<"Build">>)
  /\ UNCHANGED serviceVars

\* a push after which the deploy endpoint is called in every mode
DeployApp_push_thenDeploy ==
  /\ tool.pc = "push"
  /\ \/ ToolFails(<<"Push">>)
     \/ ToolGoes("deploy", <<"Push">>)
  /\ UNCHANGED serviceVars

\* lines 164-173: docker push, then the registry-only exit
DeployApp_push ==
  /\ tool.pc = "push"
  /\ \/ ToolFails(<<"Push">>)
     \/ IF envEnabled(tool.env.registryOnly)
        THEN ToolReturns(<<"Push">>, [image |-> tool.image, status |-> "pushed"])
        ELSE ToolGoes("deploy", <<"Push">>)
  /\ UNCHANGED serviceVars

\* lines 175-190: the DeployApp endpoint of the control plane
DeployApp_deploy ==
  /\ tool.pc = "deploy"
  /\ \/ ToolFails(<<"DeployApp">>)
     \/ \E status \in {"deploying", "healthy"} :
          ToolReturns(<<"DeployApp">>,
                      [app_id |-> RandomUUID(1), deployment_id |-> RandomUUID(2),
                       image |-> tool.image, url |-> UrlFor(tool.input.name),
                       status |-> status])
  /\ UNCHANGED serviceVars

RegistryOnlySamples ==
  {<<>>, <<"1">>, <<"0">>, <<"t", "r", "u", "e">>, <<" ", "T", "R", "U", "E">>,
   <<"y", "e", "s">>}

DeployInputs ==
  [name : {<<"m">>, <<>>, <<"M">>, <<"-", "m">>}, description : {<<"h">>, <<" ">>},
   url : {<<"u">>, <<>>}]

InitDeploy ==
  /\ deployer = Enabled
  /\ tool \in {[NoTool EXCEPT !.env = env] :
                 env \in [registryOnly : RegistryOnlySamples, controlPlaneURL : {<<>>, <<"u">>}]}
  /\ deployments = EmptyStore
  /\ services = EmptyStore
  /\ ingresses = EmptyStore
  /\ resourceVersion = 0
  /\ schemas = {}
  /\ clock = 0
  /\ uuids = 0
  /\ calls = 0
  /\ pc = [p \in Procs |-> "idle"]
  /\ call = [p \in Procs |-> NoCall]
  /\ loc = [p \in Procs |-> NoLoc]
  /\ resp = [p \in Procs |-> NoResp]
  /\ lastOk = EmptyStore
  /\ pods = <<>>
  /\ walk = NoWalk
  /\ probe = NoProbe

NextDeploy ==
  \/ \E in \in DeployInputs : DeployApp(in)
  \/ DeployApp_connect
  \/ DeployApp_prepare
  \/ DeployApp_workdir
  \/ DeployApp_build
  \/ DeployApp_push
  \/ DeployApp_deploy

SpecDeploy == InitDeploy /\ [][NextDeploy]_vars

\* the steps of DeployApp in the order of the code
StepOrder ==
  <<"Validate", "resolveControlPlaneURL", "newControlPlane", "resolveGitCommit",
    "PrepareApp", "buildImageName", "makeTempDir", "cloneFromPrepare", "writeEnv",
    "Build", "Push", "DeployApp">>

StepsBefore(step) ==
  {StepOrder[i] : i \in {j \in DOMAIN StepOrder : \A k \in 1..j : StepOrder[k] # step}}

DeployEndpointCalls == Cardinality({i \in DOMAIN tool.steps : tool.steps[i] = "DeployApp"})

\* C22: the deploy tool calls the control plane's DeployApp endpoint only after
\* input validation, PrepareApp, docker build and docker push were run in that
\* order and none of them failed; when an earlier step fails, the call returns
\* that step's error, no later step is run and the endpoint is called zero times.
C22_DeployOnlyAfterPush ==
  /\ tool.steps = SubSeq(StepOrder, 1, Len(tool.steps))
  /\ DeployEndpointCalls > 0 => tool.failed \cap StepsBefore("DeployApp") = {}
  /\ \A step \in tool.failed \cap StepsBefore("DeployApp") :
       /\ tool.pc = "done"
       /\ tool.err = step
       /\ tool.out = NoRecord
       /\ tool.steps[Len(tool.steps)] = step
       /\ DeployEndpointCalls = 0

C22_Witness ==
  /\ tool.pc = "done"
  /\ tool.err = "Push"
  /\ DeployEndpointCalls = 0
  /\ ~envEnabled(tool.env.registryOnly)

\* C23: in registry-only mode a call that gets through PrepareApp, build and push
\* returns status "pushed" with the image that was pushed, and the deploy
\* endpoint is never called.
C23_RegistryOnlyStopsAtPush ==
  envEnabled(tool.env.registryOnly) =>
    /\ DeployEndpointCalls = 0
    /\ tool.pc # "deploy"
    /\ (tool.pc = "done" /\ tool.err = "none") =>
         /\ tool.out = [image |-> tool.image, status |-> "pushed"]
         /\ tool.steps = SubSeq(StepOrder, 1, Len(StepOrder) - 1)

C23_Witness ==
  /\ tool.env.registryOnly = <<" ", "T", "R", "U", "E">>
  /\ tool.pc = "done"
  /\ tool.out = [image |-> DefaultRegistry \o <<"/", "a", "/", "m", ":", "c">>,
                 status |-> "pushed"]

\* a field the orchestrator left out, read with its default
Absent(value, default) == IF value = Undefined THEN default ELSE value

\* the rules of the status table, in order of precedence
StatusRules(d) ==
  <<[status |-> "deleting", holds |-> d.metadata.deletionTimestamp],
    [status |-> "stopped", holds |-> Absent(d.spec.replicas, 1) = 0],
    [status |-> "failed",
     holds |-> \E i \in DOMAIN d.status.conditions :
                 /\ d.status.conditions[i].type = "Progressing"
                 /\ d.status.conditions[i].status = "False"
                 /\ d.status.conditions[i].reason = "ProgressDeadlineExceeded"],
    [status |-> "healthy",
     holds |-> /\ Absent(d.status.readyReplicas, 0) > 0
               /\ Absent(d.status.availableReplicas, 0) > 0
               /\ Absent(d.status.observedGeneration, 0) >= Absent(d.metadata.generation, 0)],
    [status |-> "pending", holds |-> Absent(d.status.replicas, 0) = 0],
    [status |-> "deploying", holds |-> TRUE]>>

\* C24: the status derived for a deployment is that of the first rule of the
\* table that matches it (deleting, stopped, failed, healthy, pending, else
\* deploying), absent fields read with their defaults, and it is one of the six
\* statuses.
C24_FirstMatchingRule ==
  probe.status # "none" =>
    /\ probe.status \in Statuses
    /\ \E i \in DOMAIN StatusRules(probe.deployment) :
         /\ StatusRules(probe.deployment)[i].holds
         /\ StatusRules(probe.deployment)[i].status = probe.status
         /\ \A j \in 1..(i - 1) : ~StatusRules(probe.deployment)[j].holds

C24_Witness ==
  /\ probe.status = "healthy"
  /\ probe.deployment.spec.replicas = Undefined
  /\ probe.deployment.status.replicas = Undefined
  /\ probe.deployment.metadata.generation = Undefined
  /\ probe.deployment.status.observedGeneration = Undefined

(***************************************************************************)
(* Specification SpecLabel: toLabelValue applied to strings of every kind  *)
(* of character, short and longer than a label value may be.               *)
(***************************************************************************)
LabelEdges ==
  UNION {[1..n -> {"a", "Z", "7", ".", "_", "-", "!"}] : n \in 0..2}

LabelSamples ==
  {head \o Repeat(c, n) \o tail :
     head \in LabelEdges, tail \in LabelEdges, c \in {"a", ".", "-"},
     n \in {0} \cup ((MaxPad - 4)..MaxPad)}

InitLabel ==
  /\ Start(0)
  /\ pods = <<>>
  /\ walk = NoWalk
  /\ probe \in {[value |-> value, label |-> <<>>, status |-> "none"] :
                  value \in LabelSamples}

\* labelsForApp and the selectors normalise a value into a label value
deriveLabel ==
  /\ probe.status = "none"
  /\ probe' = [probe EXCEPT !.label = toLabelValue(probe.value), !.status = "labelled"]
  /\ UNCHANGED <<orchestrator, schemas, clock, uuids, calls, pc, call, loc, resp,
                 lastOk, pods, walk, deployer, tool>>

NextLabel == deriveLabel

SpecLabel == InitLabel /\ [][NextLabel]_vars

\* what is left of the value when every character outside a-z, 0-9 is dropped
LabelCore(value) == SelectSeq(ToLowerCase(value), LAMBDA c : c \in AlnumChars)

\* C25: toLabelValue returns, for every string, a non-empty string of at most 63
\* characters over a-z, 0-9, '.', '_' and '-' that begins and ends with a letter
\* or a digit; a string that normalises to nothing gives the placeholder "x".
C25_LabelValueValid ==
  probe.status = "labelled" =>
    /\ probe.label # <<>>
    /\ Len(probe.label) <= 63
    /\ \A i \in DOMAIN probe.label : probe.label[i] \in AlnumChars \cup {".", "_", "-"}
    /\ probe.label[1] \in AlnumChars
    /\ probe.label[Len(probe.label)] \in AlnumChars
    /\ LabelCore(probe.value) = <<>> => probe.label = <<"x">>

C25_Witness ==
  /\ probe.status = "labelled"
  /\ Len(probe.value) > LabelMaxLength
  /\ probe.value[1] = "."
  /\ probe.value[LabelMaxLength] = "_"
  /\ probe.label[1] = "a"
  /\ Len(probe.label) < LabelMaxLength - 1

(***************************************************************************)
(* Specification SpecList: two owners deploy apps of two names at          *)
(* different times, one of them with an empty description, and list them.  *)
(***************************************************************************)
ListInputs ==
  {[owner |-> <<"a", "1">>, name |-> <<"m">>, description |-> <<>>],
   [owner |-> <<"a", "1">>, name |-> <<"m">>, description |-> <<"h">>],
   [owner |-> <<"a", "1">>, name |-> <<"n">>, description |-> <<"h">>],
   [owner |-> <<"b", "2">>, name |-> <<"m">>, description |-> <<"h">>]}

InitList ==
  /\ Start(MaxListCalls)
  /\ pods = <<>>
  /\ walk = NoWalk
  /\ probe = NoProbe

NextList ==
  \/ \E in \in ListInputs :
       upsertApp(1, in.owner, in.name, in.description,
                 ImageFor(in.owner, in.name, <<"1">>))
  \/ upsertApp_find(1)
  \/ upsertApp_ensureSchema(1)
  \/ createOrReplaceDeployment(1)
  \/ createOrReplaceService(1)
  \/ createOrReplaceIngress(1)
  \/ \E owner \in Deployers, includeAll \in BOOLEAN : listApps(1, owner, includeAll)
  \/ listApps_list(1)
  \/ Return(1)
  \/ Tick

SpecList == InitList /\ [][NextList]_vars

\* the deployments the selector of a listing matches
MatchedBy(c) ==
  {d \in Range(deployments) :
     /\ d.metadata.labels.managedBy = CONTROL_PLANE_LABEL_VALUE
     /\ ~c.includeAll => d.metadata.labels.owner = toLabelValue(normalizeOwner(c.owner))}

\* C26: a listing that is answered holds one record for every deployment the
\* selector matches that decodes to a record, and no other; the records are in
\* descending order of updated_at; a matching deployment that does not decode
\* is left out and the listing does not fail.
C26_ListingDecodedAndSorted ==
  (pc[1] = "done" /\ call[1].op = "listApps"
     /\ (call[1].includeAll => call[1].isAdmin)) =>
    /\ resp[1].ok
    /\ LET records == resp[1].body.records
           decoding == {d \in MatchedBy(call[1]) : deploymentToRecord(d, clock) # NoRecord}
       IN  /\ Len(records) = Cardinality(decoding)
           /\ \A d \in decoding : \E i \in DOMAIN records : records[i] = deploymentToRecord(d, clock)
           /\ \A i \in DOMAIN records : \E d \in decoding : records[i] = deploymentToRecord(d, clock)
           /\ \A i, j \in DOMAIN records :
                i < j => records[i].updated_at >= records[j].updated_at

C26_Witness ==
  /\ pc[1] = "done"
  /\ call[1].op = "listApps"
  /\ resp[1].ok
  /\ Len(resp[1].body.records) = 2
  /\ resp[1].body.records[1].updated_at > resp[1].body.records[2].updated_at
  /\ Cardinality(MatchedBy(call[1])) = 3

(***************************************************************************)
(* Specification SpecCursor: a cursor is issued for an offset, or made up  *)
(* by the client, and presented with a request for a page of a pod's log.  *)
(***************************************************************************)
\* cursors no page has issued: not base64url, text that is no number, a
\* negative number
ForeignCursors ==
  {<<"x">>, Base64Url(<<"x">>), Base64Url(<<"-", "1">>), Base64Url(<<"1", "x">>)}

InitCursor ==
  /\ Start(0)
  /\ pods \in {sample \in PodSamples : sample[1].phase = "Running"}
  /\ walk = NoWalk
  /\ probe \in {[offset |-> offset, cursor |-> <<>>, limit |-> limit, decoded |-> Undefined,
                  page |-> NoRecord, status |-> "none"] :
                   offset \in 0..MaxOffset, limit \in {1, MaxLimit}}
              \cup {[offset |-> Undefined, cursor |-> cursor, limit |-> limit,
                     decoded |-> Undefined, page |-> NoRecord, status |-> "issued"] :
                      cursor \in ForeignCursors \cup {<<>>}, limit \in {1, MaxLimit}}

\* line 758: a page that ends at the offset hands out its cursor
issueCursor ==
  /\ probe.status = "none"
  /\ probe' = [probe EXCEPT !.cursor = encodeCursor(probe.offset), !.status = "issued"]
  /\ UNCHANGED <<orchestrator, schemas, clock, uuids, calls, pc, call, loc, resp,
                 lastOk, pods, walk, deployer, tool>>

\* lines 748-759: the cursor comes back with the next request
presentCursor ==
  /\ probe.status = "issued"
  /\ probe' = [probe EXCEPT !.decoded = decodeCursor(probe.cursor),
                            !.page = readLogs(pods, WalkApp, probe.cursor, probe.limit, clock),
                            !.status = "read"]
  /\ UNCHANGED <<orchestrator, schemas, clock, uuids, calls, pc, call, loc, resp,
                 lastOk, pods, walk, deployer, tool>>

NextCursor ==
  \/ issueCursor
  \/ presentCursor

SpecCursor == InitCursor /\ [][NextCursor]_vars

\* C27: the cursor issued for a non-negative offset decodes to that offset; no
\* cursor, a cursor that is no number and a cursor of a negative number decode
\* to 0; a cursor whose offset is at or past the end of the lines read gives an
\* empty page without a next cursor.
C27_CursorRoundTrip ==
  probe.status = "read" =>
    /\ probe.offset # Undefined => probe.decoded = probe.offset
    /\ probe.offset = Undefined => probe.decoded = 0
    /\ probe.decoded >= Len(pods[1].log) => probe.page = EmptyPage

C27_Witness ==
  /\ probe.status = "read"
  /\ probe.offset = MaxOffset
  /\ probe.decoded = MaxOffset
  /\ Len(pods[1].log) = MaxLines
  /\ probe.page = EmptyPage

(***************************************************************************)
(* Specification SpecPods: the orchestrator lists pods of the app and of   *)
(* another app, in any phase and with or without a start time, and         *)
(* readLogs is called for the app.  The log of a pod is one line that      *)
(* names its position in the list.                                         *)
(***************************************************************************)
PodAt(i, appId, phase, startTime) ==
  [name |-> <<"p">> \o DecimalString(i),
   labels |-> [managedBy |-> CONTROL_PLANE_LABEL_VALUE, appId |-> toLabelValue(appId)],
   phase |-> phase, startTime |-> startTime, containers |-> <<APP_CONTAINER_NAME>>,
   log |-> <<LogLine(i, "timestamped")>>]

PodShapes ==
  [appId : {RandomUUID(1), RandomUUID(2)}, phase : {"Running", "Pending"},
   startTime : {Undefined, 1, 2}]

InitPods ==
  /\ Start(0)
  /\ \E n \in 0..MaxPods :
       \E shape \in [1..n -> PodShapes] :
         pods = [i \in 1..n |-> PodAt(i, shape[i].appId, shape[i].phase, shape[i].startTime)]
  /\ walk = NoWalk
  /\ probe = [page |-> NoRecord, status |-> "none"]

\* lines 697-759: one readLogs call for the app, without a cursor
readLogsOfApp ==
  /\ probe.status = "none"
  /\ probe' = [probe EXCEPT !.page = readLogs(pods, WalkApp, <<>>, MaxLimit, clock),
                            !.status = "read"]
  /\ UNCHANGED <<orchestrator, schemas, clock, uuids, calls, pc, call, loc, resp,
                 lastOk, pods, walk, deployer, tool>>

NextPods == readLogsOfApp

SpecPods == InitPods /\ [][NextPods]_vars

\* the positions of the pods that carry the identity label of the app
PodsOfApp ==
  {i \in DOMAIN pods : /\ pods[i].labels.managedBy = CONTROL_PLANE_LABEL_VALUE
                       /\ pods[i].labels.appId = toLabelValue(WalkApp.app_id)}

\* the start time of a pod; a pod without one ranks before every other
StartRank(i) == IF pods[i].startTime = Undefined THEN 0 ELSE pods[i].startTime

\* the page holds the log of the pod at this position
PageReadFrom(i) ==
  /\ Len(probe.page.data) = 1
  /\ probe.page.data[1].message = DecimalString(i)
  /\ probe.page.next_cursor = <<>>

\* C28: readLogs returns an empty page without a cursor when no pod carries the
\* identity label of the app; otherwise the page is read from the first listed
\* pod of the app that is Running, or, when none is Running, from a pod of
\* the app that no other is started after, a pod without a start time
\* counting as the oldest.
C28_PodSelection ==
  probe.status = "read" =>
    LET running == {i \in PodsOfApp : pods[i].phase = "Running"}
    IN  /\ PodsOfApp = {} => probe.page = EmptyPage
        /\ running # {} => PageReadFrom(MinOf(running))
        /\ (PodsOfApp # {} /\ running = {}) =>
             \E i \in PodsOfApp :
               /\ PageReadFrom(i)
               /\ \A j \in PodsOfApp : StartRank(j) <= StartRank(i)

C28_Witness ==
  /\ probe.status = "read"
  /\ Len(pods) = 3
  /\ PodsOfApp = {2, 3}
  /\ pods[1].phase = "Running"
  /\ pods[2].phase = "Pending"
  /\ pods[2].startTime = Undefined
  /\ pods[3].phase = "Pending"
  /\ pods[3].startTime = 1
  /\ PageReadFrom(3)

(***************************************************************************)
(* Specification SpecFetch: an app is deployed and its logs are read from  *)
(* its one pod, which is Running or Pending and has one container or two; *)
(* the orchestrator answers a log fetch with the log or with an error.     *)
(***************************************************************************)
FetchPods ==
  {<<[PodAt(1, WalkApp.app_id, phase, 1) EXCEPT !.containers = containers]>> :
     phase \in {"Running", "Pending"},
     containers \in {<<APP_CONTAINER_NAME>>, <<APP_CONTAINER_NAME, <<"s">>>>}}

InitFetch ==
  /\ Start(MaxFetchCalls)
  /\ pods \in FetchPods
  /\ walk = NoWalk
  /\ probe = NoProbe

NextFetch ==
  \/ upsertApp(1, Owner1, Name1, <<"h">>, ImageFor(Owner1, Name1, <<"1">>))
  \/ upsertApp_find(1)
  \/ upsertApp_ensureSchema(1)
  \/ createOrReplaceDeployment(1)
  \/ createOrReplaceService(1)
  \/ createOrReplaceIngress(1)
  \/ \E appId \in AppIdInputs : getLogs(1, Owner1, appId, <<>>, 1)
  \/ getLogs_find(1)
  \/ getLogs_pods(1)
  \/ getLogs_read(1)
  \/ getLogs_retry(1)
  \/ Return(1)

SpecFetch == InitFetch /\ [][NextFetch]_vars

\* the fetch failed because the server could not tell which container is meant
AmbiguityFailure(fetch) == ~fetch.answer.ok /\ fetch.answer.reason = "ContainerAmbiguous"

\* C29: the first log fetch names the first container of the pod; when it fails
\* because of container ambiguity, one more fetch follows, without a container
\* name, and its log or its error is the outcome; when it fails for any
\* other reason, its error is the outcome and no other fetch is made.
C29_RetryOnAmbiguityOnly ==
  (call[1].op = "getLogs" /\ loc[1].fetches # <<>>) =>
    LET fetches == loc[1].fetches
    IN  /\ fetches[1].named
        /\ Len(fetches) <= 2
        /\ AmbiguityFailure(fetches[1]) =>
             \/ Len(fetches) = 1 /\ pc[1] = "logs_retry"
             \/ /\ Len(fetches) = 2
                /\ ~fetches[2].named
                /\ pc[1] = "done"
                /\ fetches[2].answer.ok => resp[1].ok
                /\ ~fetches[2].answer.ok => resp[1] = FetchError(fetches[2].answer)
        /\ (~fetches[1].answer.ok /\ ~AmbiguityFailure(fetches[1])) =>
             /\ Len(fetches) = 1
             /\ pc[1] = "done"
             /\ resp[1] = FetchError(fetches[1].answer)

\* the operations of C30: those that change or read an app by its id, getApp aside
FramedOps == {"stopApp", "startApp", "deleteApp", "getLogs"}

\* C30: a stopApp, startApp, deleteApp or getLogs call that is answered 404
\* not_found has made one orchestrator call, the lookup, and no write, no
\* delete and no schema-provisioner call; the step that answers leaves the
\* deployment, service and route objects and the schema set as they were.
C30_NotFoundWritesNothing ==
  [][\A p \in Procs :
       (/\ pc[p] # "done"
        /\ pc'[p] = "done"
        /\ call[p].op \in FramedOps
        /\ resp'[p] = ErrResp(404, "not_found")) =>
         /\ loc'[p].k8sCalls = 1
         /\ loc'[p].writes = <<>>
         /\ loc'[p].deletes = {}
         /\ loc'[p].pgCalls = 0
         /\ UNCHANGED <<orchestrator, schemas>>]_vars

C30_Witness ==
  /\ pc[1] = "done"
  /\ call[1].op = "deleteApp"
  /\ resp[1] = ErrResp(404, "not_found")
  /\ loc[1].existing # NoRecord
  /\ loc[1].existing.owner # call[1].owner
  /\ schemaName(loc[1].existing.app_id) \in schemas

\* the step is the write of the deployment by the upsertApp running in the slot
WritesDeployment(p) ==
  /\ call[p].op = "upsertApp"
  /\ pc[p] \in {"replace", "create"}
  /\ loc[p].kind = "deployment"
  /\ loc'[p].depWritten # loc[p].depWritten

\* C31: the deployment an upsertApp writes has desired replicas 1 and status
\* 'deploying', whatever the deployment it found, a stopped one included; an
\* upsertApp that succeeds has written it and returns status 'deploying'.
C31_UpsertResumes ==
  [][\A p \in Procs :
       /\ WritesDeployment(p) =>
            LET written == deployments'[appResourceNames(loc[p].app).deployment]
            IN  /\ written.spec.replicas = 1
                /\ written.metadata.annotations.status = "deploying"
       /\ (call[p].op = "upsertApp" /\ pc[p] # "done" /\ pc'[p] = "done" /\ resp'[p].ok) =>
            /\ resp'[p].body.status = "deploying"
            /\ loc'[p].depWritten # Undefined]_vars

C31_Witness ==
  \E p \in Procs :
    /\ pc[p] = "done"
    /\ call[p].op = "upsertApp"
    /\ resp[p].ok
    /\ loc[p].existing # NoRecord
    /\ loc[p].existing.status = "stopped"
    /\ deployments[appResourceNames(loc[p].app).deployment].spec.replicas = 1
    /\ deployments[appResourceNames(loc[p].app).deployment].metadata.resourceVersion
         = loc[p].depWritten

(***************************************************************************)
(* Specification SpecLimit: the logs route reads the limit query parameter *)
(* and passes a limit to getLogs.                                          *)
(***************************************************************************)
\* Math.trunc(Number(value)) for an absent parameter and for texts of a sign,
\* digits, a decimal point and letters: the empty text is 0, a text that is no
\* decimal numeral is NaN
TruncatedNumber(value) ==
  LET text == value.text
      negative == text # <<>> /\ text[1] = "-"
      unsigned == IF negative THEN Tail(text) ELSE text
      points == {i \in DOMAIN unsigned : unsigned[i] = "."}
      point == IF points = {} THEN Len(unsigned) + 1 ELSE MinOf(points)
      whole == SubSeq(unsigned, 1, point - 1)
      fraction == SubSeq(unsigned, point + 1, Len(unsigned))
      numeral == /\ \A i \in DOMAIN whole : whole[i] \in DigitChars
                 /\ \A i \in DOMAIN fraction : fraction[i] \in DigitChars
                 /\ whole \o fraction # <<>>
      magnitude == DecimalValue(whole)
  IN  IF ~value.set THEN [finite |-> FALSE, value |-> 0]
      ELSE IF text = <<>> THEN [finite |-> TRUE, value |-> 0]
      ELSE IF numeral
      THEN [finite |-> TRUE, value |-> IF negative THEN 0 - magnitude ELSE magnitude]
      ELSE [finite |-> FALSE, value |-> 0]

\* a limit that is not raised to 1
logsLimit_noFloor(query) ==
  LET requestedLimit == TruncatedNumber(query)
  IN  IF requestedLimit.finite THEN MinOf({requestedLimit.value, 1000}) ELSE 200

\* apps.routes.ts lines 69-72
logsLimit(query) ==
  LET requestedLimit == TruncatedNumber(query)
  IN  IF requestedLimit.finite
      THEN MinOf({MaxOf({requestedLimit.value, 1}), 1000})
      ELSE 200

QuerySamples ==
  {[set |-> FALSE, text |-> <<>>]}
  \cup {[set |-> TRUE, text |-> text] :
          text \in UNION {[1..n -> {"-", "0", "1", "9", ".", "h"}] : n \in 0..MaxQueryLen}}

InitLimit ==
  /\ Start(0)
  /\ pods = <<>>
  /\ walk = NoWalk
  /\ probe \in {[query |-> query, limit |-> Undefined, status |-> "none"] :
                  query \in QuerySamples}

\* GET /:appId/logs: the limit of the getLogs call
getLogsRoute ==
  /\ probe.status = "none"
  /\ probe' = [probe EXCEPT !.limit = logsLimit(probe.query), !.status = "routed"]
  /\ UNCHANGED <<orchestrator, schemas, clock, uuids, calls, pc, call, loc, resp,
                 lastOk, pods, walk, deployer, tool>>

NextLimit == getLogsRoute

SpecLimit == InitLimit /\ [][NextLimit]_vars

\* C32: the limit the logs route passes to getLogs is an integer from 1 to
\* 1000: 200 when the parameter is absent or is no number, the number when it
\* is a whole number from 1 to 1000, its integer part when it has a fraction,
\* 1 when that is below 1 and 1000 when it is above 1000.
C32_LimitClamped ==
  probe.status = "routed" =>
    LET text == probe.query.text
    IN  /\ probe.limit \in 1..1000
        /\ ~probe.query.set => probe.limit = 200
        /\ (\E i \in DOMAIN text : text[i] = "h") => probe.limit = 200
        /\ (IsDigits(text) /\ DecimalValue(text) \in 1..1000) =>
             probe.limit = DecimalValue(text)
        /\ (IsDigits(text) /\ DecimalValue(text) > 1000) => probe.limit = 1000
        /\ (IsDigits(text) /\ DecimalValue(text) = 0) => probe.limit = 1
        /\ (text # <<>> /\ text[1] = "-" /\ probe.limit # 200) => probe.limit = 1
        /\ (Len(text) = 3 /\ text[2] = "." /\ IsDigits(<<text[1], text[3]>>)) =>
             probe.limit = MaxOf({DecimalValue(<<text[1]>>), 1})

C32_Witness ==
  /\ probe.status = "routed"
  /\ probe.query.text = <<"1", "0", "0", "1">>
  /\ probe.limit = 1000

(***************************************************************************)
(* Specification SpecSession: one request at a time; every session token   *)
(* the middleware accepts deploys an app and then addresses it by the      *)
(* app_id it was given.                                                    *)
(***************************************************************************)
InitSession ==
  /\ Start(MaxSeqCalls)
  /\ pods = <<>>
  /\ walk = NoWalk
  /\ probe = NoProbe

NextSession ==
  \/ \E owner \in Tokens, name \in AppNames :
       upsertApp(1, owner, name, <<"h">>, ImageFor(owner, name, <<"1">>))
  \/ upsertApp_find(1)
  \/ upsertApp_ensureSchema(1)
  \/ createOrReplaceDeployment(1)
  \/ createOrReplaceService(1)
  \/ createOrReplaceIngress(1)
  \/ \E owner \in Tokens, appId \in AppIdInputs : getApp(1, owner, appId)
  \/ getApp_find(1)
  \/ \E owner \in Tokens, appId \in AppIdInputs : stopApp(1, owner, appId)
  \/ stopApp_find(1)
  \/ \E owner \in Tokens, appId \in AppIdInputs : startApp(1, owner, appId)
  \/ startApp_find(1)
  \/ setAppReplicas_read(1)
  \/ setAppReplicas_replace(1)
  \/ setAppReplicas_find(1)
  \/ \E owner \in Tokens, appId \in AppIdInputs : deleteApp(1, owner, appId)
  \/ deleteApp_find(1)
  \/ \E kind \in {"ingress", "service", "deployment"} : deleteAppResources(1, kind)
  \/ deleteApp_dropSchema(1)
  \/ \E owner \in Tokens, appId \in AppIdInputs : getLogs(1, owner, appId, <<>>, 1)
  \/ getLogs_find(1)
  \/ getLogs_pods(1)
  \/ Return(1)

SpecSession == InitSession /\ [][NextSession]_vars

\* the last successful upsertApp of some (owner, name) was called with the
\* token of this call and returned the app_id of this call, and the app has
\* not been deleted since
AddressesOwnApp(p) ==
  \E key \in DOMAIN lastOk :
    /\ lastOk[key].token = call[p].owner
    /\ lastOk[key].app_id = call[p].appId

\* C33: a call of getApp, stopApp, startApp, deleteApp or getLogs with the
\* token and the app_id of a successful upsertApp, made before the app is
\* deleted, does not fail with 404, whatever the case of the token.
C33_OwnAppIsFound ==
  \A p \in Procs :
    (/\ pc[p] = "done"
     /\ call[p].op \in ByIdOps
     /\ AddressesOwnApp(p)) => resp[p].status # 404

\* the same for the tokens written in lower case
C33_LowerCaseTokenFinds ==
  \A p \in Procs :
    (/\ pc[p] = "done"
     /\ call[p].op \in ByIdOps
     /\ call[p].owner = normalizeOwner(call[p].owner)
     /\ AddressesOwnApp(p)) => resp[p].status # 404

\* the slot's deleteApp calls dropSchema in this step
CallsDropSchema(p) ==
  /\ call[p].op = "deleteApp"
  /\ loc'[p].pgCalls = loc[p].pgCalls + 1

\* C34: a deleteApp call calls dropSchema only when the deletes of the
\* deployment, the service and the route have all been answered, each with
\* success or not-found; a deleteApp call one of whose deletes failed with
\* another error never calls dropSchema and leaves the schemas as they were.
C34_DropSchemaAfterDeletes ==
  [][\A p \in Procs :
       /\ CallsDropSchema(p) =>
            /\ {d.kind : d \in loc[p].deletes} = Kinds
            /\ \A d \in loc[p].deletes : d.code \in {200, 404}
            /\ loc[p].pending = {}
       /\ (/\ call[p].op = "deleteApp"
           /\ \E d \in loc[p].deletes : d.code \notin {200, 404}) =>
            /\ ~CallsDropSchema(p)
            /\ loc[p].pgCalls = 0
            /\ schemas' = schemas]_vars

\* a deleteApp one of whose deletes failed has returned the error, and the
\* schema of the app is still there
C34_Witness ==
  \E p \in Procs :
    /\ DeletesSettled(p)
    /\ pc[p] = "done"
    /\ resp[p] = ErrResp(500, "InternalError")
    /\ \E d \in loc[p].deletes : d.code = 200
    /\ loc[p].pgCalls = 0
    /\ schemaName(loc[p].app.app_id) \in schemas

(***************************************************************************)
(* Specification SpecRetry: a caller deploys an app and deletes it while   *)
(* the orchestrator may answer a delete with an error; once that deleteApp *)
(* has answered, the caller repeats it on the second slot while the        *)
(* orchestrator answers without errors.                                    *)
(***************************************************************************)
InitRetry ==
  /\ Start(MaxRetryCalls)
  /\ pods = <<>>
  /\ walk = NoWalk
  /\ probe = NoProbe

NextRetry ==
  \/ upsertApp(1, Owner1, Name1, <<"h">>, ImageFor(Owner1, Name1, <<"1">>))
  \/ upsertApp_find(1)
  \/ upsertApp_ensureSchema(1)
  \/ createOrReplaceDeployment(1)
  \/ createOrReplaceService(1)
  \/ createOrReplaceIngress(1)
  \/ \E appId \in AppIdInputs \ {UnknownId} : deleteApp(1, Owner1, appId)
  \/ deleteApp_find(1)
  \/ \E kind \in Kinds : deleteAppResources(1, kind)
  \/ \E kind \in Kinds : deleteAppResources_error(1, kind)
  \/ deleteApp_dropSchema(1)
  \/ pc[2] = "idle" /\ Return(1)
  \/ /\ pc[1] = "done"
     /\ call[1].op = "deleteApp"
     /\ deleteApp(2, call[1].owner, call[1].appId)
  \/ deleteApp_find(2)
  \/ \E kind \in Kinds : deleteAppResources(2, kind)
  \/ deleteApp_dropSchema(2)
  \/ Return(2)

SpecRetry == InitRetry /\ [][NextRetry]_vars

\* what is left of the app the first deleteApp was asked to delete
LeftOf(app) ==
  {kind \in Kinds : NameOfKind(kind, app) \in DOMAIN StoreOf(kind)}
  \cup (IF schemaName(app.app_id) \in schemas THEN {"schema"} ELSE {})

\* the first deleteApp failed on a delete that answered an error other than
\* not-found, and the repeated deleteApp has answered
RetryAnswered ==
  /\ pc[1] = "done"
  /\ call[1].op = "deleteApp"
  /\ \E d \in loc[1].deletes : d.code \notin {200, 404}
  /\ pc[2] = "done"
  /\ call[2].op = "deleteApp"
  /\ call[2].owner = call[1].owner
  /\ call[2].appId = call[1].appId

\* C35: after a deleteApp that failed because one delete answered an error
\* other than not-found, a later deleteApp of the same owner for the same
\* app_id, answered without errors, leaves no managed object of the app and
\* no schema of the app.
C35_RetryCompletesDelete ==
  RetryAnswered => LeftOf(loc[1].app) = {}

\* the same when the failed deleteApp did not delete the deployment
C35_RetryWithDeploymentLeft ==
  (/\ RetryAnswered
   /\ [kind |-> "deployment", code |-> 200] \notin loc[1].deletes) =>
    LeftOf(loc[1].app) = {}

C35_RetryWithDeploymentLeft_Witness ==
  /\ RetryAnswered
  /\ [kind |-> "deployment", code |-> 200] \notin loc[1].deletes
  /\ [kind |-> "service", code |-> 200] \in loc[1].deletes
  /\ resp[2].ok

\* an upsertApp and a deleteApp of the same app have both returned
BothReturned(p, q) ==
  /\ pc[p] = "done"
  /\ call[p].op = "upsertApp"
  /\ loc[p].app # NoRecord
  /\ pc[q] = "done"
  /\ call[q].op = "deleteApp"
  /\ call[q].appId = loc[p].app.app_id

\* C36: once an upsertApp and a deleteApp of the same app have both
\* returned, however their steps interleaved, the deployment object of the
\* app exists only if the schema of the app exists.
C36_LiveDeploymentHasSchema ==
  \A p, q \in Procs :
    BothReturned(p, q) =>
      (appResourceNames(loc[p].app).deployment \in DOMAIN deployments =>
         schemaName(loc[p].app.app_id) \in schemas)

\* C37: no two route objects that belong to different apps carry the same
\* hostname, also when two owners each deploy an app of the same name.
C37_HostnamesDistinct ==
  \A r1, r2 \in Range(ingresses) :
    r1.metadata.annotations.app_id # r2.metadata.annotations.app_id =>
      r1.spec.host # r2.spec.host

(***************************************************************************)
(* Specification SpecNamePairs: appResourceNames applied to two app        *)
(* records.                                                                *)
(***************************************************************************)
\* app ids of the shape randomUUID() returns, cut after the characters that
\* differ: eight characters, a hyphen, and MaxIdTail characters of which the
\* first two are inside the fragment appResourceBaseName keeps
PairedIds ==
  {Repeat("a", 8) \o <<"-">> \o tail : tail \in [1..MaxIdTail -> {"0", "1"}]}

PairedNames == {<<"m">>, <<"n">>}

InitNamePairs ==
  /\ Start(0)
  /\ pods = <<>>
  /\ walk = NoWalk
  /\ \E n1 \in PairedNames, n2 \in PairedNames, id1 \in PairedIds, id2 \in PairedIds :
       probe = [first |-> [name |-> n1, app_id |-> id1],
                second |-> [name |-> n2, app_id |-> id2],
                names |-> <<>>, status |-> "none"]

\* the names of the two records, and of the first record once more
deriveNamePair ==
  /\ probe.status = "none"
  /\ probe' = [probe EXCEPT
                 !.names = <<appResourceNames(probe.first),
                             appResourceNames(probe.second),
                             appResourceNames(probe.first)>>,
                 !.status = "named"]
  /\ UNCHANGED <<orchestrator, schemas, clock, uuids, calls, pc, call, loc, resp,
                 lastOk, pods, walk, deployer, tool>>

NextNamePairs == deriveNamePair

SpecNamePairs == InitNamePairs /\ [][NextNamePairs]_vars

DisjointNames(n1, n2) ==
  /\ n1.deployment # n2.deployment
  /\ n1.service # n2.service
  /\ n1.ingress # n2.ingress

\* C38: appResourceNames gives the same three names for the same
\* (name, app_id) on every call, and different deployment, service and route
\* names for two records with different app_id.
C38_NamesSeparateApps ==
  probe.status = "named" =>
    /\ probe.names[1] = probe.names[3]
    /\ probe.first = probe.second => probe.names[1] = probe.names[2]
    /\ probe.first.app_id # probe.second.app_id =>
         DisjointNames(probe.names[1], probe.names[2])

\* the first characters of the app id that enter the object names
IdFragment(appId) ==
  Slice(SelectSeq(ToLowerCase(appId), LAMBDA c : c \in AlnumChars), IdFragmentLength)

\* the same for two records whose app ids differ within their fragments
C38_NamesSeparateFragments ==
  probe.status = "named" =>
    /\ probe.names[1] = probe.names[3]
    /\ probe.first = probe.second => probe.names[1] = probe.names[2]
    /\ IdFragment(probe.first.app_id) # IdFragment(probe.second.app_id) =>
         DisjointNames(probe.names[1], probe.names[2])

C38_NamesSeparateFragments_Witness ==
  /\ probe.status = "named"
  /\ probe.first.name = probe.second.name
  /\ IdFragment(probe.first.app_id) # IdFragment(probe.second.app_id)
  /\ DisjointNames(probe.names[1], probe.names[2])

(***************************************************************************)
(* Specification SpecStore: InMemoryStore under sequences of upsert,       *)
(* markStatus and delete calls.  The store is held in probe; deleted and   *)
(* last are history.                                                       *)
(***************************************************************************)
\* Map.set and Map.delete
MapSet(map, key, value) ==
  [k \in DOMAIN map \cup {key} |-> IF k = key THEN value ELSE map[k]]

MapDelete(map, key) == [k \in DOMAIN map \ {key} |-> map[k]]

\* `${owner}:${name}`
ownerKey(owner, name) == owner \o <<":">> \o name

\* randomUUID().replace(/-/g, '').slice(0, 12)
ShortId(n) == Slice(SelectSeq(RandomUUID(n), LAMBDA c : c # "-"), 12)

\* logsByAppId after addLog(appId, 'stdout', message)
addLog(logs, appId, message) ==
  MapSet(logs, appId,
         Append(IF appId \in DOMAIN logs THEN logs[appId] ELSE <<>>, message))

StoreNames == {<<"m">>, <<"n">>}

StoreImages == {<<"1">>}

StoreStatuses == {"stopped"}

InitStore ==
  /\ Start(MaxStoreCalls)
  /\ pods = <<>>
  /\ walk = NoWalk
  /\ probe = [appsById |-> EmptyStore, indexByOwnerAndName |-> EmptyStore,
              logsByAppId |-> EmptyStore, deleted |-> {},
              last |-> [op |-> "none"]]

StoreStep ==
  /\ calls > 0
  /\ calls' = calls - 1
  /\ UNCHANGED <<orchestrator, schemas, pc, call, loc, resp, lastOk, pods, walk,
                 deployer, tool>>

\* a delete that leaves the index entry of the app in place
delete_keepsIndex(appId) ==
  /\ StoreStep
  /\ UNCHANGED <<clock, uuids>>
  /\ IF appId \notin DOMAIN probe.appsById
     THEN probe' = [probe EXCEPT
                      !.last = [op |-> "delete", appId |-> appId, result |-> NoRecord]]
     ELSE LET current == probe.appsById[appId]
          IN  probe' = [probe EXCEPT
                          !.appsById = MapDelete(@, appId),
                          !.logsByAppId = addLog(@, appId, "Delete requested"),
                          !.deleted = @ \cup {current},
                          !.last = [op |-> "delete", appId |-> appId,
                                    result |-> current]]

\* InMemoryStore.upsert
upsert(owner, name, image) ==
  /\ StoreStep
  /\ UNCHANGED clock
  /\ LET key == ownerKey(owner, name)
         present == key \in DOMAIN probe.indexByOwnerAndName
         now == clock
     IN  IF present
         THEN LET existingAppId == probe.indexByOwnerAndName[key]
              IN  IF existingAppId \notin DOMAIN probe.appsById
                  THEN /\ probe' = [probe EXCEPT
                                      !.last = [op |-> "upsert", key |-> key,
                                                present |-> TRUE, before |-> NoRecord,
                                                result |-> NoRecord, threw |-> TRUE]]
                       /\ UNCHANGED uuids
                  ELSE LET current == probe.appsById[existingAppId]
                           next == [current EXCEPT !.description = <<"h">>,
                                                   !.image = image,
                                                   !.url = UrlFor(name),
                                                   !.status = "deploying",
                                                   !.updated_at = now]
                       IN  /\ probe' = [probe EXCEPT
                                          !.appsById = MapSet(@, existingAppId, next),
                                          !.logsByAppId =
                                            addLog(@, existingAppId, "Redeploy requested"),
                                          !.last = [op |-> "upsert", key |-> key,
                                                    present |-> TRUE, before |-> current,
                                                    result |-> next, threw |-> FALSE]]
                           /\ UNCHANGED uuids
         ELSE LET app_id == <<"app_">> \o ShortId(uuids + 1)
                  deployment_id == <<"dep_">> \o ShortId(uuids + 2)
                  app == [app_id |-> app_id, deployment_id |-> deployment_id,
                          owner |-> owner, name |-> name, description |-> <<"h">>,
                          image |-> image, url |-> UrlFor(name),
                          status |-> "deploying", created_at |-> now,
                          updated_at |-> now, ttl_expiry |-> computeTtlExpiry(now)]
              IN  /\ probe' = [probe EXCEPT
                                 !.appsById = MapSet(@, app_id, app),
                                 !.indexByOwnerAndName = MapSet(@, key, app_id),
                                 !.logsByAppId =
                                   addLog(MapSet(@, app_id, <<>>), app_id, "App created"),
                                 !.last = [op |-> "upsert", key |-> key,
                                           present |-> FALSE, before |-> NoRecord,
                                           result |-> app, threw |-> FALSE]]
                  /\ uuids' = uuids + 2

\* InMemoryStore.markStatus
markStatus(appId, status) ==
  /\ StoreStep
  /\ UNCHANGED <<clock, uuids>>
  /\ IF appId \notin DOMAIN probe.appsById
     THEN probe' = [probe EXCEPT
                      !.last = [op |-> "markStatus", appId |-> appId,
                                result |-> NoRecord]]
     ELSE LET next == [probe.appsById[appId] EXCEPT !.status = status,
                                                    !.updated_at = clock]
          IN  probe' = [probe EXCEPT
                          !.appsById = MapSet(@, appId, next),
                          !.logsByAppId = addLog(@, appId, "Status changed"),
                          !.last = [op |-> "markStatus", appId |-> appId,
                                    result |-> next]]

\* InMemoryStore.delete
delete(appId) ==
  /\ StoreStep
  /\ UNCHANGED <<clock, uuids>>
  /\ IF appId \notin DOMAIN probe.appsById
     THEN probe' = [probe EXCEPT
                      !.last = [op |-> "delete", appId |-> appId, result |-> NoRecord]]
     ELSE LET current == probe.appsById[appId]
          IN  probe' = [probe EXCEPT
                          !.appsById = MapDelete(@, appId),
                          !.indexByOwnerAndName =
                            MapDelete(@, ownerKey(current.owner, current.name)),
                          !.logsByAppId = addLog(@, appId, "Delete requested"),
                          !.deleted = @ \cup {current},
                          !.last = [op |-> "delete", appId |-> appId,
                                    result |-> current]]

\* the app ids a caller of the store can hold: of apps present or deleted,
\* and one the store never issued
StoreIds ==
  DOMAIN probe.appsById \cup {app.app_id : app \in probe.deleted} \cup {UnknownId}

StoreTick ==
  /\ clock < MaxClock
  /\ clock' = clock + 1
  /\ UNCHANGED <<orchestrator, schemas, uuids, calls, pc, call, loc, resp, lastOk,
                 pods, walk, probe, deployer, tool>>

NextStore ==
  \/ \E owner \in Deployers, name \in StoreNames, image \in StoreImages :
       upsert(owner, name, image)
  \/ \E appId \in StoreIds, status \in StoreStatuses : markStatus(appId, status)
  \/ \E appId \in StoreIds : delete(appId)
  \/ StoreTick

SpecStore == InitStore /\ [][NextStore]_vars

\* C39: the index maps exactly the (owner, name) pairs of the apps in
\* appsById, each to the app_id of that app; an upsert of a pair already
\* present keeps app_id, deployment_id and created_at; a delete removes the
\* app and its index entry; an upsert of a pair that is not present, also of
\* one deleted before, creates an app with an app_id never used before.
C39_IndexMatchesApps ==
  LET apps == probe.appsById
      index == probe.indexByOwnerAndName
      last == probe.last
  IN  /\ DOMAIN index = {ownerKey(apps[id].owner, apps[id].name) : id \in DOMAIN apps}
      /\ \A id \in DOMAIN apps :
           /\ apps[id].app_id = id
           /\ index[ownerKey(apps[id].owner, apps[id].name)] = id
      /\ (last.op = "upsert" /\ last.present) =>
           /\ ~last.threw
           /\ last.result.app_id = last.before.app_id
           /\ last.result.deployment_id = last.before.deployment_id
           /\ last.result.created_at = last.before.created_at
           /\ apps[last.result.app_id] = last.result
      /\ (last.op = "upsert" /\ ~last.present) =>
           /\ last.result.app_id \notin {app.app_id : app \in probe.deleted}
           /\ \A id \in DOMAIN apps :
                apps[id].deployment_id = last.result.deployment_id =>
                  id = last.result.app_id
           /\ apps[last.result.app_id] = last.result
      /\ (last.op = "delete" /\ last.result # NoRecord) =>
           /\ last.appId \notin DOMAIN apps
           /\ ownerKey(last.result.owner, last.result.name) \notin DOMAIN index

\* an app was deleted and its (owner, name) deployed again, later, under a
\* new app_id, and then once more, keeping that app_id
C39_Witness ==
  /\ probe.last.op = "upsert"
  /\ probe.last.present
  /\ probe.last.result.created_at # probe.last.result.updated_at
  /\ \E gone \in probe.deleted :
       /\ gone.owner = probe.last.result.owner
       /\ gone.name = probe.last.result.name
       /\ gone.app_id # probe.last.result.app_id

====
